---- MODULE Spec2Model ----
(***************************************************************************)
(* A model of the MeloBot event dispatch core.                             *)
(*                                                                         *)
(*   BotDispatcher   src/melobot/core/dispatcher.py                        *)
(*   BotPlugin       src/src/melobot/plugin/init.py (handler registration) *)
(*                                                                         *)
(* The session admission of a handler registered with a session rule is    *)
(* not part of the sources at hand; it is modelled after section 4.4 and   *)
(* section 5 of the design description.                                    *)
(*                                                                         *)
(* Coroutines are modelled at the granularity of their suspension points:  *)
(* one action is everything a coroutine does between two awaits.           *)
(***************************************************************************)
EXTENDS Integers, Sequences, FiniteSets, TLC

(***************************************************************************)
(* Bounds of the model.                                                    *)
(***************************************************************************)
\* number of dispatch(event) calls made in one behaviour
NumEvents == 2
\* largest handler priority; priorities range over MIN_PRIORITY..MaxPriority
MaxPriority == 1
\* largest total number of handlers held by the dispatcher's lists
MaxHandlers == 3
\* number of events given to the session handler in one behaviour
NumSubmits == 3
\* number of peers; two events are in the same session when their peers agree
NumPeers == 2
\* number of flag names used in each namespace of a Flagable object
NumFlagNames == 2
\* largest number of leaf predicates made in one behaviour
MaxLeaves == 3
\* largest number of composite predicates made in one behaviour
MaxWrapped == 2
\* largest number of callback fills made on the predicates of one behaviour
MaxFills == 1
\* largest number of on_share and on_share_affected registrations together
MaxShares == 3
\* largest number of pieces a text given to CQEncoder.escape is made of
MaxPieces == 3
\* number of user ids and of group ids
NumIds == 2
\* largest number of lifecycle commands in one behaviour
MaxCmds == 3

\* PriorityLevel.MIN.value (dispatcher.py:52).  The enumeration is defined
\* outside the dispatcher; only the order of priorities matters to dispatch,
\* so the lowest level is taken as the origin of the scale.
MIN_PRIORITY == 0

Events == 1..NumEvents
Submits == 1..NumSubmits
Peers == 1..NumPeers
Priorities == MIN_PRIORITY..MaxPriority

\* BotEvent.type
EventTypes == {"message", "request", "notice", "meta", "response"}
\* the keys of BotDispatcher._handlers
HandlerKeys == {"message", "request", "notice"}

\* The handler objects that may be passed to bind.  kind is the handler's
\* class (MsgEventHandler, ReqEventHandler, NoticeEventHandler, or another
\* IEventHandler such as a meta event handler).  Message handlers come in
\* every priority and blocking combination; the dispatch loop is the same
\* for every key, so one handler of each other class is enough.
HandlerPool ==
    [kind : {"message"}, priority : Priorities, set_block : BOOLEAN]
    \cup {[kind |-> "request", priority |-> MaxPriority, set_block |-> TRUE],
          [kind |-> "notice", priority |-> MIN_PRIORITY, set_block |-> FALSE],
          [kind |-> "meta", priority |-> MaxPriority, set_block |-> FALSE]}

\* the lists of at most n handlers that can be passed to one bind call
BindArgs(n) == UNION {[1..m -> HandlerPool] : m \in 0..n}

VARIABLES
    handlers,         \* BotDispatcher._handlers: key -> list of handlers
    ready_signal,     \* BotDispatcher._ready_signal is set
    bound,            \* history: bind has been called at least once
    pc,               \* per dispatch call: "idle", "wait", "evoke", "done"
    etype,            \* per dispatch call: event.type
    lst,              \* per dispatch call: the list object `handlers` iterated
    detached,         \* per dispatch call: lst is no longer the dispatcher's list object
    idx,              \* per dispatch call: next index of the list iterator
    started,          \* history, per dispatch call: the length of lst when the loop began
    permit_priority,  \* per dispatch call: the floor
    trace,            \* history, per dispatch call: the evoke calls made
    outcome,          \* per dispatch call: "none", "returned", "propagated"
    handler_args,     \* BotPlugin.__handler_args__: the options of the registered handlers
    sess,             \* per peer: the session's state, "none", "free", "held"
    waitq,            \* per peer: the events waiting for the session, oldest first
    spc,              \* per event: where its evoke call stands
    peer,             \* per event: the peer it comes from, 0 before it is submitted
    result,           \* per event: what evoke gave, "none", "true", "false", "raise"
    cb_calls,         \* history, per event: calls of conflict_cb made for it
    found,            \* history, per event: the session state its first look-up found
    waited,           \* history, per peer: the events in the order they began to wait
    admitted,         \* history, per peer: the waiting events in the order they were let in
    valid,            \* the session handler is registered (a temp handler leaves once)
    flags_store,      \* Flagable._flags_store
    flag_call,        \* history: the last call made on the Flagable object
    marked,           \* history: the mark calls that succeeded, as <<namespace, name, val>>
    action,           \* a BotAction object: resp_id, type, params, trigger
    act_call,         \* history: the last call made on the BotAction object
    trigger_changes,  \* history: how often the value of action.trigger has changed
    extracted,        \* history: <<action, result>> of the extract calls made
    leaf,             \* a leaf BotChecker object: ok_cb, fail_cb
    leaf_call,        \* history: the last call made on the leaf checker
    slot_changes,     \* history, per slot: how often its value has changed
    preds,            \* the predicate objects made so far, in the order of their making
    family,           \* the family of the predicates made: "none", "checker", "matcher"
    fills,            \* history: the number of _fill_ok_cb and _fill_fail_cb calls made
    pred_call,        \* history: the last call made on a predicate
    share_args,       \* BotPlugin.__share_args__, as (namespace, id) pairs
    share_cb_args,    \* BotPlugin.__share_cb_args__, as (namespace, id) pairs
    built,            \* history: the outcome of the last _self_build call
    cq_text,          \* the text given to CQEncoder.escape, as a sequence of characters
    cq_escaped,       \* what escape returned for it
    cq_restored,      \* what anti_escape returned for that
    pk_params,        \* the dict under 'params' of MsgSendPacker.__package, shared by all its copies
    pk_call,          \* history: the last call made on the packer or the builder
    working_status,   \* BOT_STORE['kernel']['WORKING_STATUS']
    subcmds,          \* history: the sub-commands given to lifecycle, in order
    life_call         \* history: the last call of lifecycle

dvars == <<handlers, ready_signal, bound, pc, etype, lst, detached, idx, started,
           permit_priority, trace, outcome>>

svars == <<handler_args, sess, waitq, spc, peer, result, cb_calls, found, waited,
           admitted, valid>>

fvars == <<flags_store, flag_call, marked>>

avars == <<action, act_call, trigger_changes, extracted>>

cvars == <<leaf, leaf_call, slot_changes>>

tvars == <<preds, family, fills, pred_call>>

pvars == <<share_args, share_cb_args, built>>

qvars == <<cq_text, cq_escaped, cq_restored>>

\* the objects of utils/actInterface.py and the state of templates/lifecycle.py
kvars == <<pk_params, pk_call>>

lvars == <<working_status, subcmds, life_call>>

uvars == <<qvars, kvars, lvars>>

xvars == <<tvars, pvars, uvars>>

\* the objects of base/abc.py and the share registrations of the plugin
ovars == <<fvars, avars, cvars, xvars>>

vars == <<dvars, svars, ovars>>

(***************************************************************************)
(* Helpers                                                                 *)
(***************************************************************************)
Min(S) == CHOOSE x \in S : \A y \in S : x <= y

Max(S) == CHOOSE x \in S : \A y \in S : x >= y

Front(s) == SubSeq(s, 1, Len(s) - 1)

Last(s) == s[Len(s)]

IsSortedDesc(l) == \A i, j \in 1..Len(l) : i < j => l[i].priority >= l[j].priority

\* insertion of x behind every element of the descending list s whose key is
\* not smaller: equal keys keep their original order (sorted() is stable,
\* also with reverse=True)
InsertDesc(s, x) ==
    LET k == Cardinality({i \in 1..Len(s) : s[i].priority >= x.priority})
    IN  SubSeq(s, 1, k) \o <<x>> \o SubSeq(s, k + 1, Len(s))

RECURSIVE StableSortDesc(_)
StableSortDesc(l) ==
    IF l = <<>> THEN <<>> ELSE InsertDesc(StableSortDesc(Front(l)), Last(l))

\* a plausible slip: the list is left in the order of registration
Unsorted(l) == l

\* a plausible slip: an ascending sort turned round, which turns the
\* handlers of equal priority round as well
RECURSIVE Reversed(_)
Reversed(l) == IF l = <<>> THEN <<>> ELSE <<Last(l)>> \o Reversed(Front(l))

AscendingReversed(l) == StableSortDesc(Reversed(l))

\* sorted(self._handlers[k], key=lambda x: x.priority, reverse=True)
SortedByPriority(l) == StableSortDesc(l)

\* a plausible slip: a final else branch that puts every other handler in
\* the message list
AppendedOrOther(all_handlers, k) ==
    SelectSeq(all_handlers,
              LAMBDA h : h.kind = k \/ (k = "message" /\ h.kind \notin HandlerKeys))

\* the handlers of all_handlers that bind appends to self._handlers[k]
Appended(all_handlers, k) ==
    SelectSeq(all_handlers, LAMBDA h : h.kind = k)

\* the number of handlers the dispatcher holds
NumBound == Len(handlers["message"]) + Len(handlers["request"]) + Len(handlers["notice"])

(***************************************************************************)
(* BotDispatcher.__init__                                                  *)
(***************************************************************************)
DispatcherInit ==
    /\ handlers = [k \in HandlerKeys |-> <<>>]
    /\ ready_signal = FALSE
    /\ bound = FALSE
    /\ pc = [e \in Events |-> "idle"]
    /\ etype = [e \in Events |-> "none"]
    /\ lst = [e \in Events |-> <<>>]
    /\ detached = [e \in Events |-> FALSE]
    /\ idx = [e \in Events |-> 1]
    /\ started = [e \in Events |-> 0]
    /\ permit_priority = [e \in Events |-> MIN_PRIORITY]
    /\ trace = [e \in Events |-> <<>>]
    /\ outcome = [e \in Events |-> "none"]

\* a plausible slip: bind does not set the ready signal
BindWithoutSet(all_handlers) ==
    /\ handlers' = [k \in HandlerKeys |->
                      SortedByPriority(handlers[k] \o Appended(all_handlers, k))]
    /\ lst' = [e \in Events |->
                 IF pc[e] = "evoke" /\ ~detached[e]
                 THEN lst[e] \o Appended(all_handlers, etype[e])
                 ELSE lst[e]]
    /\ detached' = [e \in Events |-> detached[e] \/ pc[e] = "evoke"]
    /\ ready_signal' = ready_signal
    /\ bound' = TRUE
    /\ UNCHANGED <<pc, etype, idx, started, permit_priority, trace, outcome>>
    /\ UNCHANGED <<svars, ovars>>

(***************************************************************************)
(* BotDispatcher.bind(all_handlers).  The appends of the first loop act on *)
(* the list objects in place, so a dispatch that is iterating one of them  *)
(* sees the appended handlers; the second loop then replaces every list of *)
(* the dictionary by a new, sorted list object.                            *)
(***************************************************************************)
Bind(all_handlers) ==
    /\ handlers' = [k \in HandlerKeys |->
                      SortedByPriority(handlers[k] \o Appended(all_handlers, k))]
    /\ lst' = [e \in Events |->
                 IF pc[e] = "evoke" /\ ~detached[e]
                 THEN lst[e] \o Appended(all_handlers, etype[e])
                 ELSE lst[e]]
    /\ detached' = [e \in Events |-> detached[e] \/ pc[e] = "evoke"]
    /\ ready_signal' = TRUE
    /\ bound' = TRUE
    /\ UNCHANGED <<pc, etype, idx, started, permit_priority, trace, outcome>>
    /\ UNCHANGED <<svars, ovars>>

(***************************************************************************)
(* BotDispatcher.dispatch(event)                                           *)
(***************************************************************************)
\* a plausible slip: every handler is given the event, whatever the floor
PermitsAll(h, floor) == TRUE

\* a plausible slip: <= in place of <, so the floor's own level is shut out
PermitsAbove(h, floor) == ~(h.priority <= floor)

\* a plausible slip: the floor is kept on the dispatcher, one for all calls
PermitsSharedFloor(h, floor) ==
    ~(h.priority < floor) /\ \A d \in Events : ~(h.priority < permit_priority[d])

\* line 56: the handler is not skipped
Permits(h, floor) == ~(h.priority < floor)

\* the position of the next handler of l, from position from on, that the
\* loop does not skip; 0 when the iterator is exhausted first
NextPos(l, from, floor) ==
    LET S == {j \in from..Len(l) : Permits(l[j], floor)}
    IN  IF S = {} THEN 0 ELSE Min(S)

\* a plausible slip: every accepting handler raises the floor
FloorAfterAnyAccept(h, r, floor) ==
    IF r /\ h.priority > floor THEN h.priority ELSE floor

\* lines 59-63: the floor after evoke returned r for handler h
FloorAfter(h, r, floor) ==
    IF r /\ h.set_block /\ h.priority > floor THEN h.priority ELSE floor

\* the loop runs on from position from with the given floor, up to the next
\* await handler.evoke(event) or to the end of the list; tr is the record of
\* the evoke calls made so far
RunLoop(e, l, from, floor, tr) ==
    LET p == NextPos(l, from, floor)
    IN  /\ permit_priority' = [permit_priority EXCEPT ![e] = floor]
        /\ IF p = 0
           THEN /\ pc' = [pc EXCEPT ![e] = "done"]
                /\ outcome' = [outcome EXCEPT ![e] = "returned"]
                /\ idx' = [idx EXCEPT ![e] = Len(l) + 1]
                /\ trace' = [trace EXCEPT ![e] = tr]
           ELSE /\ pc' = [pc EXCEPT ![e] = "evoke"]
                /\ outcome' = outcome
                /\ idx' = [idx EXCEPT ![e] = p + 1]
                /\ trace' = [trace EXCEPT ![e] =
                               Append(tr, [pos |-> p, floor |-> floor, res |-> "pending"])]

\* dispatch(event) is called and reaches await self._ready_signal.wait();
\* the calls are numbered in the order in which they are made
Dispatch(e, t) ==
    /\ pc[e] = "idle"
    /\ \A d \in Events : d < e => pc[d] # "idle"
    /\ pc' = [pc EXCEPT ![e] = "wait"]
    /\ etype' = [etype EXCEPT ![e] = t]
    /\ UNCHANGED <<handlers, ready_signal, bound, lst, detached, idx, started,
                   permit_priority, trace, outcome>>
    /\ UNCHANGED <<svars, ovars>>

\* a plausible slip: the wait is left out
WaitReturnsAtOnce == TRUE

\* line 49: the wait returns once the signal is set
WaitReturns == ready_signal

\* the wait returns; lines 52-53, and the loop up to its first evoke.  An
\* event type that is no key of _handlers raises KeyError inside the try.
Resume(e) ==
    /\ pc[e] = "wait"
    /\ WaitReturns
    /\ IF etype[e] \in HandlerKeys
       THEN /\ lst' = [lst EXCEPT ![e] = handlers[etype[e]]]
            /\ started' = [started EXCEPT ![e] = Len(handlers[etype[e]])]
            /\ RunLoop(e, handlers[etype[e]], 1, MIN_PRIORITY, <<>>)
       ELSE /\ pc' = [pc EXCEPT ![e] = "done"]
            /\ outcome' = [outcome EXCEPT ![e] = "returned"]
            /\ UNCHANGED <<lst, idx, started, permit_priority, trace>>
    /\ UNCHANGED <<handlers, ready_signal, bound, etype, detached>>
    /\ UNCHANGED <<svars, ovars>>

\* await handler.evoke(event) returns r; lines 59-63 and the loop up to the
\* next evoke
EvokeReturn(e, r) ==
    /\ pc[e] = "evoke"
    /\ LET n == Len(trace[e])
           h == lst[e][trace[e][n].pos]
           done == [trace[e] EXCEPT ![n].res = IF r THEN "true" ELSE "false"]
       IN  RunLoop(e, lst[e], idx[e], FloorAfter(h, r, permit_priority[e]), done)
    /\ UNCHANGED <<handlers, ready_signal, bound, etype, lst, detached, started>>
    /\ UNCHANGED <<svars, ovars>>

\* the record of the evoke calls of e with the running call marked as raised
Raised(e) == [trace[e] EXCEPT ![Len(trace[e])].res = "raise"]

\* a plausible slip: no try/except around the loop, the exception leaves dispatch
EvokeRaisePropagates(e) ==
    /\ pc[e] = "evoke"
    /\ pc' = [pc EXCEPT ![e] = "done"]
    /\ outcome' = [outcome EXCEPT ![e] = "propagated"]
    /\ trace' = [trace EXCEPT ![e] = Raised(e)]
    /\ UNCHANGED <<handlers, ready_signal, bound, etype, lst, detached, idx,
                   started, permit_priority>>
    /\ UNCHANGED <<svars, ovars>>

\* a plausible slip: the failure of one dispatch ends every dispatch in flight
EvokeRaiseAbortsAll(e) ==
    /\ pc[e] = "evoke"
    /\ pc' = [d \in Events |-> IF pc[d] = "evoke" THEN "done" ELSE pc[d]]
    /\ outcome' = [d \in Events |-> IF pc[d] = "evoke" THEN "returned" ELSE outcome[d]]
    /\ trace' = [d \in Events |->
                   IF pc[d] = "evoke" THEN [trace[d] EXCEPT ![Len(trace[d])].res =
                                              IF d = e THEN "raise" ELSE "false"]
                   ELSE trace[d]]
    /\ UNCHANGED <<handlers, ready_signal, bound, etype, lst, detached, idx,
                   started, permit_priority>>
    /\ UNCHANGED <<svars, ovars>>

\* a plausible slip: the handler that raised is taken out of its list
EvokeRaiseDropsHandler(e) ==
    /\ pc[e] = "evoke"
    /\ pc' = [pc EXCEPT ![e] = "done"]
    /\ outcome' = [outcome EXCEPT ![e] = "returned"]
    /\ trace' = [trace EXCEPT ![e] = Raised(e)]
    /\ handlers' = [handlers EXCEPT ![etype[e]] =
                      SelectSeq(@, LAMBDA h : h # lst[e][Last(trace[e]).pos])]
    /\ UNCHANGED <<ready_signal, bound, etype, lst, detached, idx,
                   started, permit_priority>>
    /\ UNCHANGED <<svars, ovars>>

\* await handler.evoke(event) raises an Exception: the rest of the loop is
\* left out, lines 64-67 log the exception and dispatch returns
EvokeRaise(e) ==
    /\ pc[e] = "evoke"
    /\ pc' = [pc EXCEPT ![e] = "done"]
    /\ outcome' = [outcome EXCEPT ![e] = "returned"]
    /\ trace' = [trace EXCEPT ![e] = Raised(e)]
    /\ UNCHANGED <<handlers, ready_signal, bound, etype, lst, detached, idx,
                   started, permit_priority>>
    /\ UNCHANGED <<svars, ovars>>

(***************************************************************************)
(* BotPlugin: registration of a handler with a session rule                *)
(***************************************************************************)
\* the options on_event takes for a handler that has a session rule
SessionOptions ==
    [temp : BOOLEAN, session_hold : BOOLEAN, direct_rouse : BOOLEAN,
     conflict_wait : BOOLEAN, conflict_cb : BOOLEAN]

\* BotPlugin.__init__: no handler registered, no session, no event submitted
PluginInit ==
    /\ handler_args = <<>>
    /\ sess = [p \in Peers |-> "none"]
    /\ waitq = [p \in Peers |-> <<>>]
    /\ spc = [s \in Submits |-> "idle"]
    /\ peer = [s \in Submits |-> 0]
    /\ result = [s \in Submits |-> "none"]
    /\ cb_calls = [s \in Submits |-> 0]
    /\ found = [s \in Submits |-> "unknown"]
    /\ waited = [p \in Peers |-> <<>>]
    /\ admitted = [p \in Peers |-> <<>>]
    /\ valid = TRUE

\* on_event(temp=, session_rule=..., session_hold=, direct_rouse=,
\* conflict_wait=, conflict_cb=) applied to an executor: the arguments are
\* recorded
OnEvent(o) ==
    /\ handler_args = <<>>
    /\ handler_args' = Append(handler_args, o)
    /\ UNCHANGED <<sess, waitq, spc, peer, result, cb_calls, found, waited, admitted,
                   valid>>
    /\ UNCHANGED <<dvars, ovars>>

\* the options of the registered handler
Opt == handler_args[1]

(***************************************************************************)
(* Session admission, after section 4.4 of the design description.  The    *)
(* suspension points are the evaluation of the predicate, the wait for a   *)
(* held session and the handler body (section 5); the look-up of the       *)
(* session together with its free/held transition is one step.             *)
(***************************************************************************)
\* the events that hold the session of peer p
Holders(p) == {s \in Submits : peer[s] = p /\ spc[s] \in {"verify_held", "body"}}

\* a plausible slip: the decision rests on the look-up made before the
\* predicate was evaluated, when no session was found
NoRecheck(p) == "none"

\* the state of the session found for peer p when the predicate has passed
Recheck(p) == sess[p]

\* a plausible slip: the newest waiter is let in first
NewestWaiter(q) == Len(q)

\* the place in the queue of the waiter that is let in next: the oldest
NextWaiter(q) == 1

\* a plausible slip: the callback is run at the conflict and again on the
\* way out of evoke
InvokedTwice(n) == n + 2

\* the number of conflict_cb calls made for an event after one more call
Invoked(n) == n + 1

\* step 4: event s meets the held session of peer p
Conflict(s, p) ==
    IF Opt.conflict_wait
    THEN /\ waitq' = [waitq EXCEPT ![p] = Append(@, s)]
         /\ waited' = [waited EXCEPT ![p] = Append(@, s)]
         /\ spc' = [spc EXCEPT ![s] = "waiting"]
         /\ UNCHANGED <<result, cb_calls>>
    ELSE /\ cb_calls' = [cb_calls EXCEPT ![s] = IF Opt.conflict_cb THEN Invoked(@) ELSE @]
         /\ spc' = [spc EXCEPT ![s] = "done"]
         /\ result' = [result EXCEPT ![s] = "false"]
         /\ UNCHANGED <<waitq, waited>>

\* where an event that has just been given the free session goes on: to the
\* body when direct_rouse is set, to the evaluation of the predicate otherwise
Roused == IF Opt.direct_rouse THEN "body" ELSE "verify_held"

\* a plausible slip: a temp handler stays registered
NeverLeaves(to) == valid

\* step 5: whether the handler is still registered once an event has gone on
\* to the place to of its evoke call; a temp handler leaves in the step in
\* which the body is started for an event
ValidAfter(to) == IF to = "body" /\ Opt.temp THEN FALSE ELSE valid

\* evoke(event) is called for the s-th event, which comes from peer p: a
\* handler that has left declines; otherwise the look-up of step 1, and
\* steps 3 and 4 up to their first suspension.  Peers are numbered in the
\* order in which their first event comes.
Evoke(s, p) ==
    /\ handler_args # <<>>
    /\ spc[s] = "idle"
    /\ \A t \in Submits : t < s => spc[t] # "idle"
    /\ p = 1 \/ \E t \in Submits : peer[t] = p - 1
    /\ peer' = [peer EXCEPT ![s] = p]
    /\ IF ~valid
       THEN /\ spc' = [spc EXCEPT ![s] = "done"]
            /\ result' = [result EXCEPT ![s] = "false"]
            /\ UNCHANGED <<sess, waitq, cb_calls, found, waited, valid>>
       ELSE /\ found' = [found EXCEPT ![s] = sess[p]]
            /\ CASE sess[p] = "none" ->
                      /\ spc' = [spc EXCEPT ![s] = "verify"]
                      /\ UNCHANGED <<sess, waitq, result, cb_calls, waited, valid>>
                 [] sess[p] = "free" ->
                      /\ sess' = [sess EXCEPT ![p] = "held"]
                      /\ spc' = [spc EXCEPT ![s] = Roused]
                      /\ valid' = ValidAfter(Roused)
                      /\ UNCHANGED <<waitq, result, cb_calls, waited>>
                 [] sess[p] = "held" ->
                      /\ Conflict(s, p)
                      /\ UNCHANGED <<sess, valid>>
    /\ UNCHANGED <<handler_args, admitted>>
    /\ UNCHANGED <<dvars, ovars>>

\* step 2: no session was found and the predicate has been evaluated.  On a
\* pass the session is created held, unless one has come to be meanwhile,
\* which is then taken if free and a conflict if held.
Verified(s, pass) ==
    /\ spc[s] = "verify"
    /\ IF ~pass \/ ~valid
       THEN /\ spc' = [spc EXCEPT ![s] = "done"]
            /\ result' = [result EXCEPT ![s] = "false"]
            /\ UNCHANGED <<sess, waitq, cb_calls, waited, valid>>
       ELSE IF Recheck(peer[s]) = "held"
            THEN /\ Conflict(s, peer[s])
                 /\ UNCHANGED <<sess, valid>>
            ELSE /\ sess' = [sess EXCEPT ![peer[s]] = "held"]
                 /\ spc' = [spc EXCEPT ![s] = "body"]
                 /\ valid' = ValidAfter("body")
                 /\ UNCHANGED <<waitq, result, cb_calls, waited>>
    /\ UNCHANGED <<handler_args, peer, found, admitted>>
    /\ UNCHANGED <<dvars, ovars>>

\* event s lets go of the session of its peer with evoke result r.  The
\* oldest waiter, if any, re-enters step 3 with the session; otherwise the
\* session stays, free, when keep is set and is destroyed when not.
Release(s, r, keep) ==
    LET p == peer[s]
        q == waitq[p]
        k == NextWaiter(q)
    IN  /\ result' = [result EXCEPT ![s] = r]
        /\ IF q # <<>>
           THEN /\ spc' = [spc EXCEPT ![s] = "done", ![q[k]] = Roused]
                /\ waitq' = [waitq EXCEPT ![p] =
                                SubSeq(q, 1, k - 1) \o SubSeq(q, k + 1, Len(q))]
                /\ admitted' = [admitted EXCEPT ![p] = Append(@, q[k])]
                /\ valid' = ValidAfter(Roused)
                /\ sess' = sess
           ELSE /\ spc' = [spc EXCEPT ![s] = "done"]
                /\ sess' = [sess EXCEPT ![p] = IF keep THEN "free" ELSE "none"]
                /\ UNCHANGED <<waitq, admitted, valid>>
        /\ UNCHANGED <<handler_args, peer, cb_calls, found, waited>>

\* step 3 without direct_rouse: the predicate has been evaluated for an
\* event that holds an existing session; a failed predicate gives the
\* session back
VerifiedHeld(s, pass) ==
    /\ spc[s] = "verify_held"
    /\ IF pass /\ valid
       THEN /\ spc' = [spc EXCEPT ![s] = "body"]
            /\ valid' = ValidAfter("body")
            /\ UNCHANGED <<handler_args, sess, waitq, peer, result, cb_calls,
                           found, waited, admitted>>
       ELSE Release(s, "false", Opt.session_hold)
    /\ UNCHANGED <<dvars, ovars>>

\* the handler body returns
BodyReturn(s) ==
    /\ spc[s] = "body"
    /\ Release(s, "true", Opt.session_hold)
    /\ UNCHANGED <<dvars, ovars>>

\* a plausible slip: the exception leaves evoke with the session still held
BodyRaiseKeepsLock(s) ==
    /\ spc[s] = "body"
    /\ spc' = [spc EXCEPT ![s] = "done"]
    /\ result' = [result EXCEPT ![s] = "raise"]
    /\ UNCHANGED <<handler_args, sess, waitq, peer, cb_calls, found, waited,
                   admitted, valid>>
    /\ UNCHANGED <<dvars, ovars>>

\* the handler body raises: the session is let go before the exception
\* reaches dispatch
BodyRaise(s) ==
    /\ spc[s] = "body"
    /\ Release(s, "raise", Opt.session_hold)
    /\ UNCHANGED <<dvars, ovars>>

(***************************************************************************)
(* Flagable (base/abc.py): the flag store of an object.  A dict is a       *)
(* function on the set of its keys; the attribute _flags_store is <<>> for *)
(* None and <<d>> for the dict d.                                          *)
(***************************************************************************)
Namespaces == {"ns1", "ns2"}

FlagNames == 1..NumFlagNames

\* the values a flag may be given: None, the sentinel Void of the typing
\* module, and a value that is neither
Values == {"None", "Void", "a"}

NoStore == <<>>

EmptyDict == [x \in {} |-> "None"]

\* d[k] = v on a dict
Put(d, k, v) == [x \in DOMAIN d \cup {k} |-> IF x = k THEN v ELSE d[x]]

\* d.get(k, default)
Get(d, k, default) == IF k \in DOMAIN d THEN d[k] ELSE default

\* _flags_store after lines 100-103 of mark: the store and the dict of the
\* namespace are created when missing
WithNamespace(st, ns) ==
    LET d == IF st = NoStore THEN EmptyDict ELSE st[1]
    IN  IF ns \in DOMAIN d THEN d ELSE Put(d, ns, EmptyDict)

\* a plausible slip: the test for an existing flag is left out
MarkNeverRaises(st, ns, name) == FALSE

\* line 104: mark raises TryFlagFailed
MarkRaises(st, ns, name) == name \in DOMAIN WithNamespace(st, ns)[ns]

\* _flags_store when mark(ns, name, val) has returned or raised
MarkStore(st, ns, name, val) ==
    LET d == WithNamespace(st, ns)
    IN  IF MarkRaises(st, ns, name) THEN <<d>>
        ELSE <<Put(d, ns, Put(d[ns], name, val))>>

\* a plausible slip: a query without a value asks for the flag's presence
FlagCheckPresence(st, ns, name, val) ==
    IF st = NoStore THEN FALSE
    ELSE IF ns \notin DOMAIN st[1] THEN FALSE
    ELSE LET flag == Get(st[1][ns], name, "Void")
         IN  IF flag = "Void" THEN FALSE
             ELSE IF val = "None" THEN TRUE ELSE flag = val

\* flag_check(ns, name, val), lines 112-119
FlagCheck(st, ns, name, val) ==
    IF st = NoStore THEN FALSE
    ELSE IF ns \notin DOMAIN st[1] THEN FALSE
    ELSE LET flag == Get(st[1][ns], name, "Void")
         IN  IF flag = "Void" THEN FALSE
             ELSE IF val = "None" THEN flag = "None" ELSE flag = val

\* Flagable.__init__
FlagableInit ==
    /\ flags_store = NoStore
    /\ flag_call = [op |-> "none"]
    /\ marked = {}

\* obj.mark(ns, name, val)
Mark(ns, name, val) ==
    /\ flags_store' = MarkStore(flags_store, ns, name, val)
    /\ flag_call' = [op |-> "mark", ns |-> ns, name |-> name, val |-> val,
                     before |-> flags_store,
                     res |-> IF MarkRaises(flags_store, ns, name) THEN "raise" ELSE "ok"]
    /\ marked' = IF MarkRaises(flags_store, ns, name) THEN marked
                 ELSE marked \cup {<<ns, name, val>>}
    /\ UNCHANGED <<dvars, svars, xvars, avars, cvars>>

\* obj.flag_check(ns, name, val)
FlagCheckCall(ns, name, val) ==
    /\ flag_call' = [op |-> "flag_check", ns |-> ns, name |-> name, val |-> val,
                     before |-> flags_store,
                     res |-> IF FlagCheck(flags_store, ns, name, val)
                             THEN "true" ELSE "false"]
    /\ UNCHANGED <<flags_store, marked>>
    /\ UNCHANGED <<dvars, svars, xvars, avars, cvars>>

(***************************************************************************)
(* BotAction (base/abc.py)                                                 *)
(***************************************************************************)
\* action_args.type
ActionTypes == {"send_msg", "get_status"}

\* action_args.params, by name
ActionParams == {"params1", "params2"}

\* the resp_id argument: None, the empty string, an identifier
RespIds == {"None", "", "id1"}

\* events; the triggerEvent and event arguments are one of them or None
TriggerEvents == {"ev1", "ev2"}

\* no BotAction and no BotChecker has been constructed
NoObjects ==
    /\ action = [type |-> "none"]
    /\ act_call = [op |-> "none"]
    /\ trigger_changes = 0
    /\ extracted = {}
    /\ leaf = [made |-> FALSE]
    /\ leaf_call = [op |-> "none"]
    /\ slot_changes = [slot \in {"ok_cb", "fail_cb"} |-> 0]

\* BotAction(action_args, resp_id, triggerEvent)
NewAction(type, params, resp_id, triggerEvent) ==
    /\ action = [type |-> "none"]
    /\ action' = [type |-> type, params |-> params, resp_id |-> resp_id,
                  trigger |-> triggerEvent]
    /\ UNCHANGED <<act_call, trigger_changes, extracted>>
    /\ UNCHANGED <<dvars, svars, xvars, fvars, cvars>>

\* the truth value of a str or None in a condition
Truthy(x) == x \notin {"None", ""}

\* a plausible slip: the echo key is set whatever resp_id is
ExtractWithEcho(a) ==
    Put(Put(Put(EmptyDict, "action", a.type), "params", a.params), "echo", a.resp_id)

\* the dict extract() returns for the action a, lines 227-233
ExtractDict(a) ==
    LET obj == Put(Put(EmptyDict, "action", a.type), "params", a.params)
    IN  IF Truthy(a.resp_id) THEN Put(obj, "echo", a.resp_id) ELSE obj

\* action.extract()
Extract ==
    /\ action # [type |-> "none"]
    /\ act_call' = [op |-> "extract", before |-> action, res |-> ExtractDict(action)]
    /\ extracted' = extracted \cup {<<action, ExtractDict(action)>>}
    /\ UNCHANGED <<action, trigger_changes>>
    /\ UNCHANGED <<dvars, svars, xvars, fvars, cvars>>

\* a plausible slip: the test for a recorded trigger is left out
FillAlways(a) == TRUE

\* line 241: _fill_trigger records the event
FillAccepted(a) == a.trigger = "None"

\* action._fill_trigger(event)
FillTrigger(event) ==
    /\ action # [type |-> "none"]
    /\ action' = IF FillAccepted(action) THEN [action EXCEPT !.trigger = event]
                 ELSE action
    /\ act_call' = [op |-> "_fill_trigger", event |-> event, before |-> action,
                    res |-> IF FillAccepted(action) THEN "ok" ELSE "raise"]
    /\ trigger_changes' = IF action'.trigger # action.trigger
                          THEN trigger_changes + 1 ELSE trigger_changes
    /\ UNCHANGED extracted
    /\ UNCHANGED <<dvars, svars, xvars, fvars, cvars>>

(***************************************************************************)
(* BotChecker (base/abc.py): the callback slots of a leaf checker          *)
(***************************************************************************)
\* callbacks; a callback argument is one of them or None
Callbacks == {"cb1", "cb2", "cb3"}

Slots == {"ok_cb", "fail_cb"}

\* BotChecker.__init__(ok_cb, fail_cb) of a leaf checker
NewChecker(ok_cb, fail_cb) ==
    /\ leaf = [made |-> FALSE]
    /\ leaf' = [made |-> TRUE, ok_cb |-> ok_cb, fail_cb |-> fail_cb]
    /\ UNCHANGED <<leaf_call, slot_changes>>
    /\ UNCHANGED <<dvars, svars, xvars, fvars, avars>>

\* a plausible slip: the test for a filled slot is left out
SlotAlwaysFree(c, slot) == TRUE

\* lines 369 and 375: the slot holds no callback
SlotFree(c, slot) == c[slot] = "None"

\* leaf._fill_ok_cb(cb) for the slot "ok_cb", leaf._fill_fail_cb(cb) for the
\* slot "fail_cb"
FillCb(slot, cb) ==
    /\ leaf # [made |-> FALSE]
    /\ leaf' = IF SlotFree(leaf, slot) THEN [leaf EXCEPT ![slot] = cb] ELSE leaf
    /\ leaf_call' = [op |-> "_fill", slot |-> slot, cb |-> cb, before |-> leaf,
                     res |-> IF SlotFree(leaf, slot) THEN "ok" ELSE "raise"]
    /\ slot_changes' = [x \in Slots |->
                          IF leaf'[x] # leaf[x] THEN slot_changes[x] + 1
                          ELSE slot_changes[x]]
    /\ UNCHANGED <<dvars, svars, xvars, fvars, avars>>

(***************************************************************************)
(* Predicate composition (base/abc.py): BotChecker and WrappedChecker,     *)
(* BotMatcher and WrappedMatcher.  The objects are kept in the order of    *)
(* their making; an object is referred to by its place in preds, so that   *)
(* one object may occur at several places of a tree.  The predicates of    *)
(* one behaviour belong to one family; an operand of the other family is,  *)
(* to the isinstance test of an operator, an object like any other.        *)
(***************************************************************************)
Families == {"checker", "matcher"}

\* LogicMode
BinaryModes == {"AND", "OR", "XOR"}

\* a right operand that is no predicate of the family: None, a predicate of
\* the other family, any other object
NonPredicate == -1

\* the callback filled into the checkers
FilledCallbacks == {"cb1"}

NoPredicates ==
    /\ preds = <<>>
    /\ family = "none"
    /\ fills = 0
    /\ pred_call = [op |-> "none"]

IsLeaf(n) == n.kind = "leaf"

NumLeaves(h) == Cardinality({i \in 1..Len(h) : IsLeaf(h[i])})

\* A leaf predicate is constructed without callbacks: a checker with
\* BotChecker.__init__(), a matcher with BotMatcher.__init__().  The leaves
\* are made before the composites: no method depends on the order in which
\* unrelated objects were constructed, so every set of objects is reached,
\* up to the numbering, in this order.
NewLeaf(fam) ==
    /\ family \in {"none", fam}
    /\ NumLeaves(preds) < MaxLeaves
    /\ NumLeaves(preds) = Len(preds)
    /\ family' = fam
    /\ preds' = Append(preds, [kind |-> "leaf", mode |-> "none", c1 |-> 0, c2 |-> 0,
                               ok_cb |-> "None", fail_cb |-> "None"])
    /\ pred_call' = [op |-> "new", res |-> Len(preds) + 1]
    /\ UNCHANGED fills
    /\ UNCHANGED <<dvars, svars, fvars, avars, cvars, pvars, uvars>>

\* WrappedChecker.__init__(mode, c1, c2), WrappedMatcher.__init__(mode, m1,
\* m2): c2 is 0 for None
Wrapped(mode, c1, c2) ==
    [kind |-> "wrapped", mode |-> mode, c1 |-> c1, c2 |-> c2,
     ok_cb |-> "None", fail_cb |-> "None"]

\* the exception of the family: BotCheckerError, BotMatcherError
ErrorOf(fam) == IF fam = "checker" THEN "BotCheckerError" ELSE "BotMatcherError"

\* a plausible slip: the operand is not tested
AnyOperand(other) == TRUE

\* isinstance(other, BotChecker), isinstance(other, BotMatcher)
IsInstance(other) == other # NonPredicate

\* a & other, a | other, a ^ other for the mode AND, OR, XOR
Combine(mode, a, other) ==
    /\ a \in 1..Len(preds)
    /\ IF IsInstance(other)
       THEN /\ Len(preds) - NumLeaves(preds) < MaxWrapped
            /\ preds' = Append(preds, Wrapped(mode, a, other))
            /\ pred_call' = [op |-> mode, left |-> a, right |-> other,
                             before |-> preds, res |-> Len(preds) + 1]
       ELSE /\ preds' = preds
            /\ pred_call' = [op |-> mode, right |-> other, before |-> preds,
                             res |-> 0, raised |-> ErrorOf(family)]
    /\ UNCHANGED <<family, fills>>
    /\ UNCHANGED <<dvars, svars, fvars, avars, cvars, pvars, uvars>>

\* ~a
Invert(a) ==
    /\ a \in 1..Len(preds)
    /\ Len(preds) - NumLeaves(preds) < MaxWrapped
    /\ preds' = Append(preds, Wrapped("NOT", a, 0))
    /\ pred_call' = [op |-> "NOT", left |-> a, right |-> 0,
                     before |-> preds, res |-> Len(preds) + 1]
    /\ UNCHANGED <<family, fills>>
    /\ UNCHANGED <<dvars, svars, fvars, avars, cvars, pvars, uvars>>

\* a plausible slip: only the first child is filled
SkipsSecond(node) == FALSE

\* lines 422 and 428: the second child is filled if there is one
FillsSecond(node) == node.c2 # 0

\* The objects h after n._fill_ok_cb(cb) (slot "ok_cb") or n._fill_fail_cb(cb)
\* (slot "fail_cb") has returned (ok) or raised BotCheckerError (not ok).
\* BotChecker._fill_*_cb tests and sets the slot of the object itself;
\* WrappedChecker._fill_*_cb calls it and then fills c1 and, if there is
\* one, c2.  An exception leaves what was set before it.
RECURSIVE FillRec(_, _, _, _)
FillRec(h, n, slot, cb) ==
    IF ~SlotFree(h[n], slot) THEN [h |-> h, ok |-> FALSE]
    ELSE LET h1 == [h EXCEPT ![n][slot] = cb]
         IN  IF IsLeaf(h[n]) THEN [h |-> h1, ok |-> TRUE]
             ELSE LET r1 == FillRec(h1, h[n].c1, slot, cb)
                  IN  IF ~r1.ok \/ ~FillsSecond(h[n]) THEN r1
                      ELSE FillRec(r1.h, h[n].c2, slot, cb)

\* preds[n]._fill_ok_cb(cb), preds[n]._fill_fail_cb(cb) of the WrappedChecker
\* preds[n]
Fill(slot, n, cb) ==
    /\ family = "checker"
    /\ n \in 1..Len(preds)
    /\ ~IsLeaf(preds[n])
    /\ fills < MaxFills
    /\ fills' = fills + 1
    /\ LET r == FillRec(preds, n, slot, cb)
       IN  /\ preds' = r.h
           /\ pred_call' = [op |-> "fill", slot |-> slot, root |-> n, cb |-> cb,
                            before |-> preds, res |-> IF r.ok THEN 1 ELSE 0]
    /\ UNCHANGED family
    /\ UNCHANGED <<dvars, svars, fvars, avars, cvars, pvars, uvars>>

\* a plausible slip: XOR computed as OR
CalcXorAsOr(mode, v1, v2, absent) ==
    CASE mode = "AND" -> v1 /\ v2 /\ ~absent
      [] mode = "OR"  -> v1 \/ (v2 /\ ~absent)
      [] mode = "XOR" -> v1 \/ (v2 /\ ~absent)
      [] mode = "NOT" -> ~v1

\* LogicMode.calc(mode, v1, v2), after section 4.2 of the design description;
\* absent says that v2 is None, which counts as not true
Calc(mode, v1, v2, absent) ==
    CASE mode = "AND" -> v1 /\ v2 /\ ~absent
      [] mode = "OR"  -> v1 \/ (v2 /\ ~absent)
      [] mode = "XOR" -> v1 # (v2 /\ ~absent)
      [] mode = "NOT" -> ~v1

\* the callbacks a leaf checker calls when its own result is val: a leaf
\* calls its ok_cb on a pass and its fail_cb on a failure, if it holds one
\* (section 4.2 of the design description)
LeafFires(leaf_node, val, slot) ==
    IF (slot = "ok_cb") = val /\ leaf_node[slot] # "None"
    THEN <<leaf_node[slot]>> ELSE <<>>

\* a plausible slip: the right child is not evaluated when the left result
\* decides the outcome
RightSkippedWhenDecided(node, left) ==
    /\ node.c2 # 0
    /\ ~(node.mode = "AND" /\ ~left)
    /\ ~(node.mode = "OR" /\ left)

\* lines 434 and 512: the second child is evaluated
RightEvaluated(node, left) == node.c2 # 0

\* line 434: the child whose check gives the third argument of calc
CheckSecond(node) == node.c2

\* a plausible slip: the first matcher is asked twice
MatchSecondIsFirst(node) == node.c1

\* line 512: the child whose match gives the third argument of calc
MatchSecond(node) == node.c2

\* One evaluation of h[n] by the method of the family fam, WrappedChecker.check
\* or WrappedMatcher.match, res giving the result of every leaf.  val is the
\* result, order the leaves in the order of their evaluation, ok and fail the
\* callbacks called.
RECURSIVE EvalAs(_, _, _, _)
EvalAs(fam, h, n, res) ==
    IF IsLeaf(h[n])
    THEN [val |-> res[n], order |-> <<n>>,
          ok |-> LeafFires(h[n], res[n], "ok_cb"),
          fail |-> LeafFires(h[n], res[n], "fail_cb")]
    ELSE LET a == EvalAs(fam, h, h[n].c1, res)
             two == RightEvaluated(h[n], a.val)
             second == IF fam = "checker" THEN CheckSecond(h[n]) ELSE MatchSecond(h[n])
             b == IF two THEN EvalAs(fam, h, second, res)
                  ELSE [val |-> FALSE, order |-> <<>>, ok |-> <<>>, fail |-> <<>>]
         IN  [val |-> Calc(h[n].mode, a.val, b.val, ~two),
              order |-> a.order \o b.order,
              ok |-> a.ok \o b.ok,
              fail |-> a.fail \o b.fail]

\* the evaluation by the method of the family of the predicates made
EvalRec(h, n, res) == EvalAs(family, h, n, res)

\* the leaves of h
Leaves(h) == {i \in 1..Len(h) : IsLeaf(h[i])}

\* the objects of the tree of h[n]: n and its descendants
RECURSIVE Tree(_, _)
Tree(h, n) ==
    IF IsLeaf(h[n]) THEN {n}
    ELSE {n} \cup Tree(h, h[n].c1) \cup (IF h[n].c2 = 0 THEN {} ELSE Tree(h, h[n].c2))

\* preds[n].check(event) of the WrappedChecker or preds[n].match(text) of the
\* WrappedMatcher preds[n] is evaluated, the leaves giving the results res;
\* the leaves outside the tree are not asked
Eval(n, res) ==
    /\ n \in 1..Len(preds)
    /\ ~IsLeaf(preds[n])
    /\ \A l \in Leaves(preds) \ Tree(preds, n) : ~res[l]
    /\ pred_call' = [op |-> "eval", root |-> n, leafres |-> res,
                     out |-> EvalRec(preds, n, res)]
    /\ UNCHANGED <<preds, family, fills>>
    /\ UNCHANGED <<dvars, svars, fvars, avars, cvars, pvars, uvars>>

(***************************************************************************)
(* BotPlugin: shared objects                                               *)
(***************************************************************************)
ShareNamespaces == {"nsA", "nsB"}

ShareIds == {"id1", "id2"}

\* BotPlugin.__init__: no registration yet, _self_build not called
NoShares ==
    /\ share_args = <<>>
    /\ share_cb_args = <<>>
    /\ built = [res |-> "none"]

NumShares == Len(share_args) + Len(share_cb_args)

\* on_share(namespace, id, reflector), or the decorator that
\* on_share(namespace, id) returns applied to a function
OnShare(namespace, id) ==
    /\ NumShares < MaxShares
    /\ share_args' = Append(share_args, <<namespace, id>>)
    /\ UNCHANGED <<share_cb_args, built>>
    /\ UNCHANGED <<dvars, svars, fvars, avars, cvars, tvars, uvars>>

\* the decorator that on_share_affected(namespace, id) returns applied to a
\* function
OnShareAffected(namespace, id) ==
    /\ NumShares < MaxShares
    /\ share_cb_args' = Append(share_cb_args, <<namespace, id>>)
    /\ UNCHANGED <<share_args, built>>
    /\ UNCHANGED <<dvars, svars, fvars, avars, cvars, tvars, uvars>>

\* pair in shares
InList(pair, shares) == \E i \in 1..Len(shares) : shares[i] = pair

\* the pairs the generator of _self_build yields a False for
Unshared(shares, share_cbs) ==
    LET NotShared(pair) == ~InList(pair, shares)
    IN  SelectSeq(share_cbs, NotShared)

\* a plausible slip: the numbers of registrations are compared
CheckPassByCount(shares, share_cbs) == Len(share_cbs) <= Len(shares)

\* check_pass: all() of a False for every pair of share_cbs not in shares
CheckPass(shares, share_cbs) ==
    \A i \in 1..Len(Unshared(shares, share_cbs)) : FALSE

\* _self_build(): the proxy gets the pairs of the two lists, in their order
SelfBuild ==
    /\ built.res = "none"
    /\ built' = [res |-> IF CheckPass(share_args, share_cb_args)
                         THEN "ok" ELSE "PluginInitError",
                 shares |-> share_args, share_cbs |-> share_cb_args]
    /\ UNCHANGED <<share_args, share_cb_args>>
    /\ UNCHANGED <<dvars, svars, fvars, avars, cvars, tvars, uvars>>

(***************************************************************************)
(* CQEncoder (utils/actInterface.py).  A text is a sequence of characters. *)
(***************************************************************************)
\* the characters escape replaces, and what it puts for them
Amp == <<"&">>

AmpEntity == <<"&", "a", "m", "p", ";">>

OpenEntity == <<"&", "#", "9", "1", ";">>

CloseEntity == <<"&", "#", "9", "3", ";">>

CommaEntity == <<"&", "#", "4", "4", ";">>

\* The pieces the texts are put together from: the characters escape
\* replaces, an ordinary character, and the tails of the four sequences,
\* which make a text hold a sequence that escape produces.
Pieces ==
    {<<"&">>, <<"[">>, <<"]">>, <<",">>, <<"x">>,
     Tail(AmpEntity), Tail(OpenEntity), Tail(CloseEntity), Tail(CommaEntity)}

RECURSIVE Flatten(_)
Flatten(ps) == IF ps = <<>> THEN <<>> ELSE Head(ps) \o Flatten(Tail(ps))

\* the texts of at most n pieces
Texts(n) == {Flatten(ps) : ps \in UNION {[1..m -> Pieces] : m \in 0..n}}

\* str.replace(old, new): every occurrence of old, found from the left and
\* not overlapping, is replaced by new
RECURSIVE Replace(_, _, _)
Replace(text, old, new) ==
    IF Len(text) < Len(old) THEN text
    ELSE IF SubSeq(text, 1, Len(old)) = old
         THEN new \o Replace(SubSeq(text, Len(old) + 1, Len(text)), old, new)
         ELSE <<Head(text)>> \o Replace(Tail(text), old, new)

\* CQEncoder.escape(text)
Escaped(text) ==
    Replace(Replace(Replace(Replace(text, Amp, AmpEntity),
                            <<"[">>, OpenEntity),
                    <<"]">>, CloseEntity),
            <<",">>, CommaEntity)

\* CQEncoder.anti_escape(text)
AntiEscaped(text) ==
    Replace(Replace(Replace(Replace(text, AmpEntity, Amp),
                            OpenEntity, <<"[">>),
                    CloseEntity, <<"]">>),
            CommaEntity, <<",">>)

\* no text has been given to the encoder
NoText ==
    /\ cq_text = <<"none">>
    /\ cq_escaped = <<"none">>
    /\ cq_restored = <<"none">>

\* Encoder.escape(text); the encoder keeps no state, so one text is followed
\* in each behaviour
Escape(text) ==
    /\ cq_text = <<"none">>
    /\ cq_text' = text
    /\ cq_escaped' = Escaped(text)
    /\ cq_restored' = <<"none">>
    /\ UNCHANGED <<dvars, svars, fvars, avars, cvars, tvars, pvars, kvars, lvars>>

\* Encoder.anti_escape of the text that escape returned
AntiEscape ==
    /\ cq_escaped # <<"none">>
    /\ cq_restored = <<"none">>
    /\ cq_restored' = AntiEscaped(cq_escaped)
    /\ UNCHANGED <<cq_text, cq_escaped>>
    /\ UNCHANGED <<dvars, svars, fvars, avars, cvars, tvars, pvars, kvars, lvars>>

(***************************************************************************)
(* MsgSendPacker and ActionBuilder (utils/actInterface.py).  The packer is *)
(* one object, msg_send_packer; every package it returns is a shallow copy *)
(* of __package: the copy has its own action_type and shares the dict      *)
(* under 'params' with __package and with every other copy.                *)
(***************************************************************************)
\* user ids and group ids; 0 stands for a key that is absent
Ids == 1..NumIds

\* the cqEncodeMsgs arguments: lists of strings and a list of dicts
CqMsgs ==
    {[str |-> TRUE, parts |-> <<"a">>],
     [str |-> TRUE, parts |-> <<"a", "b">>],
     [str |-> FALSE, parts |-> <<"face">>]}

\* the value stored under 'message': the strings joined, or the list itself
Message(msgs) ==
    IF msgs.str THEN [kind |-> "str", parts |-> msgs.parts]
    ELSE [kind |-> "list", parts |-> msgs.parts]

NoMessage == [kind |-> "absent", parts |-> <<>>]

\* the params dict without any key: MsgSendPacker.__init__
EmptyParams ==
    [message |-> NoMessage, auto_escape |-> FALSE, user_id |-> 0, group_id |-> 0]

NoPackage ==
    /\ pk_params = EmptyParams
    /\ pk_call = [op |-> "none"]

\* lines 304-309 and 322-327: the assignments to packed['params'], key being
\* 'user_id' or 'group_id'
SetParams(params, msgs, key, id, isPureText) ==
    [[[params EXCEPT !.message = Message(msgs)]
         EXCEPT !.auto_escape = isPureText \/ @]
         EXCEPT ![key] = id]

\* msg_send_packer.private_pack(cqEncodeMsgs, userId, isPureText)
PrivatePack(msgs, userId, isPureText) ==
    /\ pk_params' = SetParams(pk_params, msgs, "user_id", userId, isPureText)
    /\ pk_call' = [op |-> "private_pack", msgs |-> msgs, id |-> userId,
                   pure |-> isPureText, res |-> "send_private_msg"]
    /\ UNCHANGED <<dvars, svars, fvars, avars, cvars, tvars, pvars, qvars, lvars>>

\* msg_send_packer.group_pack(cqEncodeMsgs, groupId, isPureText)
GroupPack(msgs, groupId, isPureText) ==
    /\ pk_params' = SetParams(pk_params, msgs, "group_id", groupId, isPureText)
    /\ pk_call' = [op |-> "group_pack", msgs |-> msgs, id |-> groupId,
                   pure |-> isPureText, res |-> "send_group_msg"]
    /\ UNCHANGED <<dvars, svars, fvars, avars, cvars, tvars, pvars, qvars, lvars>>

\* The event dicts given to pack; a key that an event does not have is
\* "absent" (0 for an id).  The message events carry the key 'message'.
PackEvents ==
    {[post_type |-> "message", has_message |-> TRUE, message_type |-> "group",
      sub_type |-> "normal", group_id |-> g, user_id |-> u] : g \in Ids, u \in Ids}
    \cup {[post_type |-> "message", has_message |-> TRUE, message_type |-> "private",
           sub_type |-> "friend", group_id |-> 0, user_id |-> u] : u \in Ids}
    \cup {[post_type |-> "notice", has_message |-> FALSE, message_type |-> "absent",
           sub_type |-> st, group_id |-> g, user_id |-> u] :
             st \in {"poke", "set", "absent"}, g \in {0} \cup Ids, u \in Ids}
    \cup {[post_type |-> "request", has_message |-> FALSE, message_type |-> "absent",
           sub_type |-> st, group_id |-> g, user_id |-> 1] :
             st \in {"add", "absent"}, g \in {0, 1}}
    \cup {[post_type |-> "meta_event", has_message |-> FALSE, message_type |-> "absent",
           sub_type |-> "absent", group_id |-> 0, user_id |-> 0]}

\* event[key] raises KeyError
Missing(event, key) ==
    event[key] = (IF key \in {"group_id", "user_id"} THEN 0 ELSE "absent")

\* lines 338-350: the branch pack takes, or the exception it raises; and
\* evaluates its operands from left to right and stops at the first false one
Route(event) ==
    IF event.post_type = "message" /\ event.has_message
       /\ Missing(event, "message_type")
    THEN [res |-> "KeyError", id |-> 0]
    ELSE IF /\ event.post_type = "message" /\ event.has_message
            /\ event.message_type = "group"
    THEN IF Missing(event, "group_id") THEN [res |-> "KeyError", id |-> 0]
         ELSE [res |-> "group", id |-> event.group_id]
    ELSE IF event.post_type = "message" /\ Missing(event, "message_type")
    THEN [res |-> "KeyError", id |-> 0]
    ELSE IF event.post_type = "message" /\ event.message_type = "private"
    THEN IF Missing(event, "user_id") THEN [res |-> "KeyError", id |-> 0]
         ELSE [res |-> "private", id |-> event.user_id]
    ELSE IF event.post_type = "notice" /\ Missing(event, "sub_type")
    THEN [res |-> "KeyError", id |-> 0]
    ELSE IF event.post_type = "notice" /\ event.sub_type = "poke"
    THEN IF ~Missing(event, "group_id")
         THEN [res |-> "group", id |-> event.group_id]
         ELSE IF Missing(event, "user_id") THEN [res |-> "KeyError", id |-> 0]
         ELSE [res |-> "private", id |-> event.user_id]
    ELSE [res |-> "BotUnexpectedEvent", id |-> 0]

\* msg_send_packer.pack(event, cqEncodeMsgs, isPureText)
Pack(event, msgs, isPureText) ==
    LET r == Route(event)
    IN  /\ pk_params' =
              IF r.res = "group"
              THEN SetParams(pk_params, msgs, "group_id", r.id, isPureText)
              ELSE IF r.res = "private"
              THEN SetParams(pk_params, msgs, "user_id", r.id, isPureText)
              ELSE pk_params
        /\ pk_call' = [op |-> "pack", event |-> event, msgs |-> msgs,
                       id |-> r.id, pure |-> isPureText,
                       res |-> IF r.res = "group" THEN "send_group_msg"
                               ELSE IF r.res = "private" THEN "send_private_msg"
                               ELSE r.res]
        /\ UNCHANGED <<dvars, svars, fvars, avars, cvars, tvars, pvars, qvars, lvars>>

\* the action types of the packages
SendTypes == {"send_private_msg", "send_group_msg"}

\* a package has been returned by the last call
Returned(call) == call.op \in {"private_pack", "group_pack", "pack"} /\ call.res \in SendTypes

\* Builder.build(package, isEcho) for the package that the last call returned:
\* a deep copy of a dict with the package's action_type and params, and with
\* a time stamp under 'echo' if isEcho
Build(isEcho) ==
    /\ Returned(pk_call)
    /\ pk_call' = [op |-> "build", of |-> pk_call,
                   echo |-> IF isEcho THEN "time" ELSE "absent",
                   action |-> pk_call.res, params |-> pk_params]
    /\ UNCHANGED pk_params
    /\ UNCHANGED <<dvars, svars, fvars, avars, cvars, tvars, pvars, qvars, lvars>>

(***************************************************************************)
(* The lifecycle command (templates/lifecycle.py).  WORKING_STATUS lives   *)
(* in BOT_STORE, which is filled at start-up by code outside this module:  *)
(* its value is "unknown" until lifecycle reads it, and the first          *)
(* comparison with it may come out either way.                             *)
(***************************************************************************)
\* the sub-commands; "restart" stands for every word other than on, off, close
SubCmds == {"on", "off", "close", "restart"}

\* the events that carry a command: message events
LifeEvents == {event \in PackEvents : event.post_type = "message"}

NoCommand ==
    /\ working_status = "unknown"
    /\ subcmds = <<>>
    /\ life_call = [op |-> "none"]

\* the values that a read of WORKING_STATUS can give
StatusRead(status) == IF status = "unknown" THEN {"True", "False"} ELSE {status}

\* lines 25-30 for the value read: the status stored and the text answered
lifecycle_on(read) ==
    IF read = "True" THEN [status |-> "True", text |-> "already working"]
    ELSE [status |-> "True", text |-> "back"]

\* a plausible slip: the branch answers and does not store the status
lifecycle_off_without_store(read) ==
    IF read = "False" THEN [status |-> "False", text |-> "none"]
    ELSE [status |-> read, text |-> "rest"]

\* lines 39-45 for the value read; the text "none": return without an action
lifecycle_off(read) ==
    IF read = "False" THEN [status |-> "False", text |-> "none"]
    ELSE [status |-> "False", text |-> "rest"]

\* lines 64-70: Builder.build(msg_send_packer.pack(event, [Encoder.text(text)]));
\* Encoder.text returns the string, and pack and build act on the packer's dict
text_action(event, text) ==
    LET r == Route(event)
        msgs == [str |-> TRUE, parts |-> <<text>>]
        key == IF r.res = "group" THEN "group_id" ELSE "user_id"
        packed == [op |-> "pack", event |-> event, msgs |-> msgs, id |-> r.id,
                   pure |-> FALSE,
                   res |-> IF r.res = "group" THEN "send_group_msg"
                           ELSE "send_private_msg"]
    IN  /\ pk_params' = SetParams(pk_params, msgs, key, r.id, FALSE)
        /\ pk_call' = [op |-> "build", of |-> packed, echo |-> "absent",
                       action |-> packed.res,
                       params |-> SetParams(pk_params, msgs, key, r.id, FALSE)]

\* await lifecycle(event, subCmd).  lifecycle_on and lifecycle_off do not
\* await; lifecycle_close builds its action before its first await and hands
\* it to the monitor, and leaves the status alone.
Lifecycle(event, subCmd) ==
    /\ Len(subcmds) < MaxCmds
    /\ subcmds' = Append(subcmds, subCmd)
    /\ \E read \in StatusRead(working_status) :
         LET out == IF subCmd = "on" THEN lifecycle_on(read)
                    ELSE IF subCmd = "off" THEN lifecycle_off(read)
                    ELSE IF subCmd = "close"
                    THEN [status |-> working_status, text |-> "closing"]
                    ELSE [status |-> working_status, text |-> "none"]
         IN  /\ working_status' = out.status
             /\ life_call' =
                   [op |-> "lifecycle", subCmd |-> subCmd,
                    before |-> IF subCmd \in {"on", "off"} THEN read
                               ELSE working_status,
                    res |-> IF subCmd \in {"on", "off"}
                            THEN (IF out.text = "none" THEN "none" ELSE "action")
                            ELSE IF subCmd = "close" THEN "none"
                            ELSE "BotCmdWrongParams",
                    text |-> out.text]
             /\ IF out.text = "none" THEN UNCHANGED kvars
                ELSE text_action(event, out.text)
    /\ UNCHANGED <<dvars, svars, fvars, avars, cvars, tvars, pvars, qvars>>

(***************************************************************************)
(* Specifications                                                          *)
(***************************************************************************)
Init ==
    /\ DispatcherInit /\ PluginInit /\ FlagableInit /\ NoObjects
    /\ NoPredicates /\ NoShares
    /\ NoText /\ NoPackage /\ NoCommand

Next ==
    \/ \E hs \in BindArgs(MaxHandlers - NumBound) : Bind(hs)
    \/ \E e \in Events : \E t \in EventTypes : Dispatch(e, t)
    \/ \E e \in Events : Resume(e)
    \/ \E e \in Events : \E r \in BOOLEAN : EvokeReturn(e, r)
    \/ \E e \in Events : EvokeRaise(e)

\* the dispatcher and the dispatch calls
Spec == Init /\ [][Next]_vars

\* The dispatcher where bind is called at some time, the event loop resumes
\* a dispatch that waits for the ready signal once the signal is set, and
\* every evoke call returns or raises.
DispatchLive ==
    /\ Spec
    /\ WF_vars(~bound /\ \E hs \in BindArgs(MaxHandlers) : Bind(hs))
    /\ \A e \in Events : WF_vars(Resume(e))
    /\ \A e \in Events : WF_vars((\E r \in BOOLEAN : EvokeReturn(e, r)) \/ EvokeRaise(e))

SessionNext ==
    \/ \E o \in SessionOptions : OnEvent(o)
    \/ \E s \in Submits : \E p \in Peers : Evoke(s, p)
    \/ \E s \in Submits : \E pass \in BOOLEAN : Verified(s, pass)
    \/ \E s \in Submits : \E pass \in BOOLEAN : VerifiedHeld(s, pass)
    \/ \E s \in Submits : BodyReturn(s)
    \/ \E s \in Submits : BodyRaise(s)

\* one handler with a session rule and the events given to it
SessionSpec == Init /\ [][SessionNext]_vars

\* the same under the scheduling of the event loop: a coroutine that can go
\* on is run, and a predicate or a handler body comes to an end
SessionLive ==
    /\ SessionSpec
    /\ WF_vars(\E s \in Submits : \E pass \in BOOLEAN : Verified(s, pass))
    /\ WF_vars(\E s \in Submits : \E pass \in BOOLEAN : VerifiedHeld(s, pass))
    /\ WF_vars(\E s \in Submits : BodyReturn(s) \/ BodyRaise(s))

FlagNext ==
    \/ \E ns \in Namespaces : \E name \in FlagNames : \E val \in Values :
          Mark(ns, name, val)
    \/ \E ns \in Namespaces : \E name \in FlagNames : \E val \in Values :
          FlagCheckCall(ns, name, val)

\* one Flagable object and the calls made on it
FlagSpec == Init /\ [][FlagNext]_vars

ActionNext ==
    \/ \E type \in ActionTypes : \E params \in ActionParams :
          \E resp_id \in RespIds : \E ev \in TriggerEvents \cup {"None"} :
             NewAction(type, params, resp_id, ev)
    \/ \E ev \in TriggerEvents \cup {"None"} : FillTrigger(ev)
    \/ Extract

\* one BotAction object and the calls made on it
ActionSpec == Init /\ [][ActionNext]_vars

CheckerNext ==
    \/ \E ok_cb \in Callbacks \cup {"None"} : \E fail_cb \in Callbacks \cup {"None"} :
          NewChecker(ok_cb, fail_cb)
    \/ \E slot \in Slots : \E cb \in Callbacks \cup {"None"} : FillCb(slot, cb)

\* one leaf checker and the calls made on it
CheckerSpec == Init /\ [][CheckerNext]_vars

PredNext ==
    \/ \E fam \in Families : NewLeaf(fam)
    \/ \E mode \in BinaryModes : \E a \in 1..Len(preds) :
          \E other \in (1..Len(preds)) \cup {NonPredicate} : Combine(mode, a, other)
    \/ \E a \in 1..Len(preds) : Invert(a)
    \/ \E slot \in Slots : \E n \in 1..Len(preds) : \E cb \in FilledCallbacks :
          Fill(slot, n, cb)
    \/ \E n \in 1..Len(preds) : \E res \in [Leaves(preds) -> BOOLEAN] : Eval(n, res)

ShareNext ==
    \/ \E namespace \in ShareNamespaces : \E id \in ShareIds : OnShare(namespace, id)
    \/ \E namespace \in ShareNamespaces : \E id \in ShareIds :
          OnShareAffected(namespace, id)
    \/ SelfBuild

\* one plugin: its share registrations and its build
ShareSpec == Init /\ [][ShareNext]_vars

EncoderNext ==
    \/ \E text \in Texts(MaxPieces) : Escape(text)
    \/ AntiEscape

\* the encoder: texts escaped and restored
EncoderSpec == Init /\ [][EncoderNext]_vars

PackerNext ==
    \/ \E msgs \in CqMsgs : \E userId \in Ids : \E isPureText \in BOOLEAN :
          PrivatePack(msgs, userId, isPureText)
    \/ \E msgs \in CqMsgs : \E groupId \in Ids : \E isPureText \in BOOLEAN :
          GroupPack(msgs, groupId, isPureText)
    \/ \E event \in PackEvents : \E msgs \in CqMsgs : \E isPureText \in BOOLEAN :
          Pack(event, msgs, isPureText)
    \/ \E isEcho \in BOOLEAN : Build(isEcho)

\* the message packer and the action builder
PackerSpec == Init /\ [][PackerNext]_vars

LifeNext ==
    \E event \in LifeEvents : \E subCmd \in SubCmds : Lifecycle(event, subCmd)

\* the lifecycle command
LifeSpec == Init /\ [][LifeNext]_vars

\* the predicates of one family: their composition, the filling of their
\* callbacks and their evaluation
PredSpec == Init /\ [][PredNext]_vars

(***************************************************************************)
(* Properties of dispatch                                                  *)
(***************************************************************************)
\* the handler of the i-th evoke call of dispatch call e
Evoked(e, i) == lst[e][trace[e][i].pos]

\* the handlers evoked by dispatch call e, in the order of the calls
EvokeSeq(e) == [i \in 1..Len(trace[e]) |-> Evoked(e, i)]

\* the i-th evoke call of e returned true and its handler is blocking
BlockedAt(e, i) == trace[e][i].res = "true" /\ Evoked(e, i).set_block

\* an evoke call of e raised
HasRaised(e) == \E i \in 1..Len(trace[e]) : trace[e][i].res = "raise"

\* C1: in every dispatch call a handler is evoked only if its priority is
\* at least the floor at the moment of the call, and the floor never
\* decreases during the dispatch call.
C1_EvokedAtOrAboveFloor ==
    \A e \in Events :
        /\ \A i \in 1..Len(trace[e]) : Evoked(e, i).priority >= trace[e][i].floor
        /\ \A i, j \in 1..Len(trace[e]) :
               i < j => trace[e][i].floor <= trace[e][j].floor
        /\ \A i \in 1..Len(trace[e]) : trace[e][i].floor <= permit_priority[e]
        /\ permit_priority[e] >= MIN_PRIORITY

\* a finished dispatch whose floor was raised and which skipped a handler
C1_Witness ==
    \E e \in Events :
        /\ pc[e] = "done"
        /\ permit_priority[e] > MIN_PRIORITY
        /\ \E i \in 1..Len(trace[e]) : trace[e][i].floor > MIN_PRIORITY
        /\ Len(trace[e]) < Len(lst[e])

\* the handlers of the scenario: A and C at the highest level, A blocking,
\* B at a lower level
ScenarioA == [kind |-> "message", priority |-> MaxPriority, set_block |-> TRUE]

ScenarioC == [kind |-> "message", priority |-> MaxPriority, set_block |-> FALSE]

ScenarioBs == {h \in HandlerPool : h.kind = "message" /\ h.priority < MaxPriority}

\* l holds exactly A, C and one B, A registered before C
IsScenarioList(l) ==
    /\ Len(l) = 3
    /\ \E i, j, k \in 1..3 :
          /\ {i, j, k} = 1..3
          /\ i < j
          /\ l[i] = ScenarioA /\ l[j] = ScenarioC /\ l[k] \in ScenarioBs

\* C2: once a blocking handler of priority p has returned true, no handler
\* of priority below p is evoked in the rest of the dispatch; with A (top
\* level, blocking, accepts), B (lower level) and C (top level, accepts)
\* bound for message events when the dispatch of a message event starts,
\* the handlers evoked are A, C.
C2_NoEvokeBelowBlocker ==
    \A e \in Events :
        /\ \A i, j \in 1..Len(trace[e]) :
               (i < j /\ BlockedAt(e, i)) =>
                   Evoked(e, j).priority >= Evoked(e, i).priority
        /\ ( /\ pc[e] = "done"
             /\ etype[e] = "message"
             /\ ~detached[e]
             /\ IsScenarioList(lst[e])
             /\ \A i \in 1..Len(trace[e]) : trace[e][i].res = "true" )
           => EvokeSeq(e) = <<ScenarioA, ScenarioC>>

\* the scenario ran to its end: A and C were evoked and accepted, B was not
C2_Witness ==
    \E e \in Events :
        /\ pc[e] = "done"
        /\ ~detached[e]
        /\ IsScenarioList(lst[e])
        /\ lst[e][3] \in ScenarioBs
        /\ EvokeSeq(e) = <<ScenarioA, ScenarioC>>
        /\ \A i \in 1..Len(trace[e]) : trace[e][i].res = "true"

\* C3: a blocking handler that accepted the event does not shut out the
\* handlers of its own priority: every handler of that priority which the
\* loop reaches after it is evoked, unless a blocking handler of a higher
\* priority accepted the event before.
C3_SamePriorityStillEvoked ==
    \A e \in Events : \A i \in 1..Len(trace[e]) :
        BlockedAt(e, i) =>
            \A j \in (trace[e][i].pos + 1)..(idx[e] - 1) :
                ( /\ lst[e][j].priority = Evoked(e, i).priority
                  /\ ~ \E m \in 1..Len(trace[e]) :
                          /\ trace[e][m].pos < j
                          /\ BlockedAt(e, m)
                          /\ Evoked(e, m).priority > lst[e][j].priority )
                => \E k \in 1..Len(trace[e]) : trace[e][k].pos = j

\* a blocking handler above the lowest level accepted the event and the next
\* handler, of the same priority, was evoked
C3_Witness ==
    \E e \in Events : \E i \in 1..Len(trace[e]) :
        /\ BlockedAt(e, i)
        /\ Evoked(e, i).priority > MIN_PRIORITY
        /\ i < Len(trace[e])
        /\ Evoked(e, i + 1).priority = Evoked(e, i).priority
        /\ permit_priority[e] = Evoked(e, i).priority

\* C4: the evoke calls of one dispatch call are made one at a time, each
\* after the one before has returned, and, when no bind call ran during the
\* dispatch, in non-increasing order of priority, whatever the other
\* dispatch calls do.
C4_OneAtATimeInOrder ==
    \A e \in Events :
        /\ \A i \in 1..Len(trace[e]) :
               trace[e][i].res = "pending" => (i = Len(trace[e]) /\ pc[e] = "evoke")
        /\ pc[e] = "evoke" =>
               (trace[e] # <<>> /\ Last(trace[e]).res = "pending")
        /\ \A i, j \in 1..Len(trace[e]) : i < j => trace[e][i].pos < trace[e][j].pos
        /\ ~detached[e] =>
               \A i, j \in 1..Len(trace[e]) :
                   i < j => Evoked(e, i).priority >= Evoked(e, j).priority

\* two dispatch calls are in flight at once, both past their first handler,
\* one of them having gone down a priority level
C4_Witness ==
    /\ \A e \in Events : pc[e] = "evoke" /\ Len(trace[e]) >= 2 /\ ~detached[e]
    /\ \E e \in Events : Evoked(e, 1).priority > Evoked(e, 2).priority

\* C5: when an evoke call raises, no further handler is evoked for the
\* event and dispatch returns normally; the exception never leaves dispatch.
C5_RaiseEndsDispatch ==
    \A e \in Events :
        /\ outcome[e] # "propagated"
        /\ \A i \in 1..Len(trace[e]) :
               trace[e][i].res = "raise" =>
                   /\ i = Len(trace[e])
                   /\ pc[e] = "done"
                   /\ outcome[e] = "returned"

\* an evoke call raised while a handler that the floor permits was still to
\* come
C5_Witness ==
    \E e \in Events :
        /\ HasRaised(e)
        /\ \E j \in idx[e]..Len(lst[e]) : lst[e][j].priority >= permit_priority[e]

\* the result of the evoke call made for position j of e's list, "none"
\* when there was none
ResultAt(e, j) ==
    IF \E i \in 1..Len(trace[e]) : trace[e][i].pos = j
    THEN trace[e][CHOOSE i \in 1..Len(trace[e]) : trace[e][i].pos = j].res
    ELSE "none"

\* The positions of l, from j up to upto, that one dispatch evokes on its
\* own: steps 1-6 of the dispatch loop replayed over the list with the
\* results R its evoke calls gave.
RECURSIVE OwnEvokes(_, _, _, _, _)
OwnEvokes(l, R, j, upto, floor) ==
    IF j > upto THEN <<>>
    ELSE IF l[j].priority < floor THEN OwnEvokes(l, R, j + 1, upto, floor)
    ELSE IF R[j] \in {"true", "false"}
         THEN <<j>> \o OwnEvokes(l, R, j + 1, upto,
                  IF R[j] = "true" /\ l[j].set_block /\ l[j].priority > floor
                  THEN l[j].priority ELSE floor)
         ELSE <<j>>

\* dispatch call e has evoked exactly the handlers, in the order, that its
\* own list and its own evoke results determine, and has ended only at the
\* end of its list or on an exception of its own
RunsOnItsOwn(e) ==
    /\ [i \in 1..Len(trace[e]) |-> trace[e][i].pos]
          = OwnEvokes(lst[e], [j \in 1..Len(lst[e]) |-> ResultAt(e, j)],
                      1, idx[e] - 1, MIN_PRIORITY)
    /\ pc[e] = "done" =>
          \/ HasRaised(e)
          \/ etype[e] \notin HandlerKeys
          \/ idx[e] = Len(lst[e]) + 1

\* C6: when a handler raises during one dispatch, every other dispatch
\* evokes exactly the handlers, in the same order, that it evokes on its
\* own, and the dispatcher stays ready.
C6_OtherDispatchUnaffected ==
    \A d, e \in Events :
        (d # e /\ HasRaised(d)) => (RunsOnItsOwn(e) /\ ready_signal)

\* the second dispatch call failed while the first one, called before it,
\* was in flight; the first has gone on to its end, evoking a further handler
C6_Witness ==
    /\ NumEvents >= 2
    /\ HasRaised(2)
    /\ Len(trace[2]) < Len(lst[2])
    /\ pc[1] = "done"
    /\ ~HasRaised(1)
    /\ Len(trace[1]) >= 2
    /\ Len(trace[1]) < Len(lst[1])

\* C7: the dispatcher starts unready, and before the first bind call no
\* handler is evoked: a dispatch call made by then stays at the ready wait.
C7_NoEvokeBeforeBind ==
    ~bound =>
        /\ ~ready_signal
        /\ \A e \in Events : pc[e] \in {"idle", "wait"} /\ trace[e] = <<>>

\* every dispatch call has been made and waits, bind not yet called
C7_Witness ==
    /\ ~bound
    /\ \A e \in Events : pc[e] = "wait" /\ etype[e] = "message"

\* C8: after one or more bind calls the dispatcher is ready, it never goes
\* back to unready, and after each bind call every handler list is sorted
\* by priority, descending.
C8_ReadyAndSortedAfterBind ==
    /\ bound => ready_signal
    /\ \A k \in HandlerKeys : IsSortedDesc(handlers[k])

\* bind ran again while a dispatch was in flight, and the message list
\* holds handlers of different priorities
C8_Witness ==
    /\ ready_signal
    /\ \E e \in Events : detached[e]
    /\ Len(handlers["message"]) >= 3
    /\ handlers["message"][1].priority > handlers["message"][3].priority

\* the priorities of the blocking handlers whose evoke has returned true so
\* far in dispatch call e
AcceptedBlockers(e) ==
    {Evoked(e, i).priority : i \in {k \in 1..Len(trace[e]) : BlockedAt(e, k)}}

\* C26: at every point of a dispatch call the floor is the maximum of
\* MIN_PRIORITY and the priorities of the blocking handlers whose evoke has
\* returned true so far in this call; an evoke that returns false and an
\* accepting handler that does not block leave the floor as it is.
C26_FloorIsMaxOfAcceptedBlockers ==
    \A e \in Events :
        /\ permit_priority[e] = Max({MIN_PRIORITY} \cup AcceptedBlockers(e))
        /\ \A i \in 1..Len(trace[e]) :
               (trace[e][i].res # "pending" /\ ~BlockedAt(e, i)) =>
                   trace[e][i].floor = IF i < Len(trace[e]) THEN trace[e][i + 1].floor
                                       ELSE permit_priority[e]

\* a blocking handler above the lowest level declined the event and a
\* handler that does not block accepted it, the floor staying at the lowest
\* level; a blocking handler then accepted it and raised the floor
C26_Witness ==
    \E e \in Events :
        /\ Len(trace[e]) = 3
        /\ Evoked(e, 1).set_block /\ Evoked(e, 1).priority > MIN_PRIORITY
        /\ trace[e][1].res = "false"
        /\ ~Evoked(e, 2).set_block /\ trace[e][2].res = "true"
        /\ trace[e][3].floor = MIN_PRIORITY
        /\ BlockedAt(e, 3)
        /\ permit_priority[e] > MIN_PRIORITY

\* position j of the list of dispatch call e has been passed without an
\* evoke call
Skipped(e, j) ==
    /\ j \in 1..(idx[e] - 1)
    /\ ~ \E i \in 1..Len(trace[e]) : trace[e][i].pos = j

\* C27: the floor belongs to one dispatch call: a handler is skipped in the
\* dispatch of an event only below a blocking handler that accepted that
\* very event, never because of a blocking handler that accepted another
\* event.
C27_FloorIsLocal ==
    \A e \in Events : \A j \in 1..Len(lst[e]) :
        Skipped(e, j) =>
            \E m \in 1..Len(trace[e]) :
                /\ trace[e][m].pos < j
                /\ BlockedAt(e, m)
                /\ Evoked(e, m).priority > lst[e][j].priority

\* the first dispatch call has ended with its floor raised by a blocking
\* handler, and the second call, over the same list, has declined that
\* handler and evoked the handlers below it
C27_Witness ==
    /\ NumEvents >= 2
    /\ pc[1] = "done" /\ pc[2] = "done"
    /\ lst[1] = lst[2] /\ etype[1] = etype[2]
    /\ permit_priority[1] > MIN_PRIORITY
    /\ Len(trace[1]) < Len(lst[1])
    /\ permit_priority[2] = MIN_PRIORITY
    /\ Len(trace[2]) = Len(lst[2])
    /\ \E i \in 1..Len(trace[2]) : Evoked(2, i).priority < permit_priority[1]

\* a step of a dispatch call: the call, the return of the ready wait, the
\* return or the exception of an evoke call
DispatchStep == \E e \in Events : pc'[e] # pc[e] \/ trace'[e] # trace[e]

\* C28: no step of a dispatch call, whether the call ends normally or on an
\* exception, changes the handler lists or the ready state; only bind does.
C28_DispatchLeavesListsAlone ==
    [][DispatchStep => UNCHANGED <<handlers, ready_signal>>]_vars

\* one dispatch call has ended on an exception and another at the end of the
\* list, and the list of the dispatcher is the one both went through
C28_Witness ==
    \E d, e \in Events :
        /\ pc[d] = "done" /\ HasRaised(d)
        /\ pc[e] = "done" /\ ~HasRaised(e) /\ Len(trace[e]) >= 2
        /\ etype[d] = etype[e]
        /\ handlers[etype[e]] = lst[e]
        /\ handlers[etype[d]] = lst[d]

\* C30: a bind call made while a dispatch is suspended in an evoke call does
\* not change what that dispatch does: the dispatch evokes only handlers that
\* were in its list when the loop began, in non-increasing order of priority.
C30_BindLeavesDispatchInFlightAlone ==
    \A e \in Events :
        /\ \A i \in 1..Len(trace[e]) : trace[e][i].pos <= started[e]
        /\ \A i, j \in 1..Len(trace[e]) :
               i < j => Evoked(e, i).priority >= Evoked(e, j).priority

\* the handlers of priority p of the list l, in the order of l
AtPriority(l, p) == SelectSeq(l, LAMBDA h : h.priority = p)

\* q is p followed by something
IsPrefix(p, q) == Len(p) <= Len(q) /\ SubSeq(q, 1, Len(p)) = p

\* C31: bind orders the handlers stably.  In every list the handlers of one
\* priority stay in the order in which they were passed to bind: those of
\* earlier bind calls first, in their old order, then those of the new call
\* in the order of its argument, which the list a dispatch in flight holds
\* shows; and a dispatch evokes the handlers in the order of its list.
C31_BindIsStable ==
    [][/\ handlers' # handlers =>
            \A k \in HandlerKeys : \A p \in Priorities :
                /\ IsPrefix(AtPriority(handlers[k], p), AtPriority(handlers'[k], p))
                /\ \A e \in Events :
                       (pc[e] = "evoke" /\ ~detached[e] /\ etype[e] = k) =>
                           AtPriority(handlers'[k], p) = AtPriority(lst'[e], p)
       /\ \A e \in Events : \A i \in 1..(Len(trace'[e]) - 1) :
              trace'[e][i].pos < trace'[e][i + 1].pos]_vars

\* a second bind call, made while a dispatch was in flight, has passed a
\* handler of the highest level and one of the level of the handler bound
\* before: the new list has the latter behind the old handler of its level
C31_Witness ==
    \E e \in Events :
        /\ pc[e] = "evoke" /\ started[e] = 1 /\ Len(lst[e]) = 3
        /\ lst[e][1].priority = MIN_PRIORITY
        /\ lst[e][2].priority = MaxPriority
        /\ lst[e][3].priority = MIN_PRIORITY
        /\ lst[e][3] # lst[e][1]
        /\ handlers[etype[e]] = <<lst[e][2], lst[e][1], lst[e][3]>>

\* C32: the dispatch of an event whose type has no handler list (meta,
\* response) evokes no handler and returns without an error leaving
\* dispatch; bind puts no handler other than a message, request or notice
\* handler in any list, and each of these in the list of its own type.
C32_NoListNoEvoke ==
    /\ \A e \in Events :
          (pc[e] # "idle" /\ etype[e] \notin HandlerKeys) =>
              /\ trace[e] = <<>>
              /\ outcome[e] # "propagated"
              /\ pc[e] \in {"wait", "done"}
              /\ pc[e] = "done" => outcome[e] = "returned"
    /\ \A k \in HandlerKeys : \A i \in 1..Len(handlers[k]) : handlers[k][i].kind = k
    /\ \A e \in Events : \A i \in 1..Len(lst[e]) : lst[e][i].kind = etype[e]

\* a meta event and a response event have been dispatched and the calls have
\* returned, while handlers were bound
C32_Witness ==
    /\ NumBound >= 2
    /\ \E d, e \in Events :
          /\ etype[d] = "meta" /\ etype[e] = "response"
          /\ pc[d] = "done" /\ pc[e] = "done"
          /\ outcome[d] = "returned" /\ outcome[e] = "returned"

\* C33: every dispatch call returns in the end, provided bind is called at
\* some time and every evoke call returns or raises: in the end no call is
\* left at the ready wait or in an evoke; and no position of the list is
\* evoked more than once in one dispatch call.
C33_DispatchReturns ==
    /\ [](\A e \in Events : \A i, j \in 1..Len(trace[e]) :
              trace[e][i].pos = trace[e][j].pos => i = j)
    /\ [](\A e \in Events : pc[e] = "done" => outcome[e] = "returned")
    /\ <>[](\A e \in Events : pc[e] \in {"idle", "done"})

\* every dispatch call has returned, one at the end of a list of three
\* handlers that it evoked one after the other, another on an exception
C33_Witness ==
    /\ \A e \in Events : pc[e] = "done" /\ outcome[e] = "returned"
    /\ \E e \in Events : Len(trace[e]) = 3 /\ ~HasRaised(e)
    /\ \E e \in Events : HasRaised(e)

(***************************************************************************)
(* Properties of session admission                                         *)
(***************************************************************************)
\* the events whose handler body is executing for the session of peer p
InBody(p) == {s \in Submits : peer[s] = p /\ spc[s] = "body"}

\* C9: for a handler registered with a session rule at most one invocation
\* of the handler body is executing at any time for one session, and at
\* most one event holds the session: two events of the same session never
\* both find it free and both proceed.
C9_OneInvocationPerSession ==
    \A p \in Peers :
        /\ Cardinality(InBody(p)) <= 1
        /\ Cardinality(Holders(p)) <= 1
        /\ sess[p] = "held" <=> Holders(p) # {}

\* two events of one peer both found no session and went to evaluate the
\* predicate; the one submitted later runs the body, the other one waits
C9_Witness ==
    \E s, t \in Submits :
        /\ t < s
        /\ peer[s] = peer[t]
        /\ found[s] = "none" /\ found[t] = "none"
        /\ spc[s] = "body"
        /\ spc[t] = "waiting"

Entered(s) == spc[s] = "body" \/ result[s] \in {"true", "raise"}

\* C11: with conflict_wait unset and a conflict_cb given, an event that
\* meets its session held never runs the handler body, conflict_cb is called
\* exactly once for it, and its evoke call returns false, a result with
\* which dispatch leaves the floor where it is; no event has the callback
\* called more than once, and none that did not meet a held session.
C11_ConflictCallsBackOnce ==
    (handler_args # <<>> /\ ~Opt.conflict_wait /\ Opt.conflict_cb) =>
        \A s \in Submits :
            /\ cb_calls[s] <= 1
            /\ spc[s] # "waiting"
            /\ found[s] = "held" => cb_calls[s] = 1
            /\ cb_calls[s] = 1 =>
                  /\ spc[s] = "done"
                  /\ result[s] = "false"
                  /\ ~Entered(s)
                  /\ \A h \in HandlerPool : \A f \in Priorities :
                        FloorAfter(h, result[s] = "true", f) = f
            /\ (spc[s] = "done" /\ found[s] = "free") => cb_calls[s] = 0

\* an event met the session held by an event that is still in the body, and
\* the callback was called for it
C11_Witness ==
    /\ handler_args # <<>>
    /\ ~Opt.conflict_wait
    /\ Opt.conflict_cb
    /\ \E s, t \in Submits :
          /\ s # t
          /\ peer[s] = peer[t]
          /\ spc[t] = "body"
          /\ found[s] = "held"
          /\ cb_calls[s] = 1
          /\ result[s] = "false"

IsSet(st, ns, name) ==
    st # NoStore /\ ns \in DOMAIN st[1] /\ name \in DOMAIN st[1][ns]

\* the value of the pair (ns, name) in the store st, "unset" when it has none
Stored(st, ns, name) == IF IsSet(st, ns, name) THEN st[1][ns][name] ELSE "unset"

\* a mark call on the pair (ns, name) has succeeded
WasMarked(ns, name) == \E v \in Values : <<ns, name, v>> \in marked

\* C14: mark raises TryFlagFailed when the pair is already set and then
\* leaves the stored value as it was; a mark of a pair that is not yet set
\* succeeds and stores the value; no other pair is touched by either.
C14_MarkOnce ==
    /\ \A t, u \in marked : (t[1] = u[1] /\ t[2] = u[2]) => t = u
    /\ \A ns \in Namespaces : \A name \in FlagNames :
          /\ IsSet(flags_store, ns, name) <=> WasMarked(ns, name)
          /\ IsSet(flags_store, ns, name) =>
                <<ns, name, Stored(flags_store, ns, name)>> \in marked
    /\ flag_call.op = "mark" =>
          /\ IF IsSet(flag_call.before, flag_call.ns, flag_call.name)
             THEN /\ flag_call.res = "raise"
                  /\ Stored(flags_store, flag_call.ns, flag_call.name)
                        = Stored(flag_call.before, flag_call.ns, flag_call.name)
             ELSE /\ flag_call.res = "ok"
                  /\ Stored(flags_store, flag_call.ns, flag_call.name) = flag_call.val
          /\ \A ns \in Namespaces : \A name \in FlagNames :
                (ns # flag_call.ns \/ name # flag_call.name) =>
                    Stored(flags_store, ns, name) = Stored(flag_call.before, ns, name)

\* a mark without a value was refused for a pair that is set, while the
\* same name in the other namespace and the other names are free or set
C14_Witness ==
    /\ flag_call.op = "mark"
    /\ flag_call.res = "raise"
    /\ flag_call.val = "None"
    /\ Stored(flags_store, flag_call.ns, flag_call.name) = "a"
    /\ \E ns \in Namespaces \ {flag_call.ns} : IsSet(flags_store, ns, flag_call.name)
    /\ \E name \in FlagNames \ {flag_call.name} :
          ~IsSet(flags_store, flag_call.ns, name)

\* C15: flag_check returns false when the pair was never marked and true
\* when the pair was marked with the value asked for.
C15_CheckTrueOnEqualValue ==
    flag_call.op = "flag_check" =>
        /\ ~WasMarked(flag_call.ns, flag_call.name) => flag_call.res = "false"
        /\ <<flag_call.ns, flag_call.name, flag_call.val>> \in marked =>
              flag_call.res = "true"

\* C16 as stated: a flag_check call without a value returns true exactly
\* when the pair has been marked, with whatever value.
C16_NoValueQueryIsPresence ==
    (flag_call.op = "flag_check" /\ flag_call.val = "None") =>
        (flag_call.res = "true" <=> WasMarked(flag_call.ns, flag_call.name))

\* C16: a flag_check call without a value returns true exactly when the
\* pair has been marked without a value (with None).
C16_NoValueQueryMatchesNone ==
    (flag_call.op = "flag_check" /\ flag_call.val = "None") =>
        (flag_call.res = "true"
            <=> <<flag_call.ns, flag_call.name, "None">> \in marked)

\* a pair marked with a value was queried without a value: false
C16_Witness ==
    /\ flag_call.op = "flag_check"
    /\ flag_call.val = "None"
    /\ <<flag_call.ns, flag_call.name, "a">> \in marked
    /\ flag_call.res = "false"

\* C17: at every time after mark(ns, name, v) has succeeded, flag_check(ns,
\* name, v) returns true.
C17_MarksPermanent ==
    \A t \in marked : FlagCheck(flags_store, t[1], t[2], t[3])

(***************************************************************************)
(* Properties of BotAction                                                 *)
(***************************************************************************)
\* C18: _fill_trigger succeeds exactly when no trigger is recorded and then
\* records the event; a call made when a trigger is recorded, from the
\* construction or from an earlier fill, raises BotActionError and leaves
\* the action as it was; the recorded trigger changes at most once.
C18_TriggerFilledOnce ==
    /\ trigger_changes <= 1
    /\ act_call.op = "_fill_trigger" =>
          IF act_call.before.trigger = "None"
          THEN /\ act_call.res = "ok"
               /\ action = [act_call.before EXCEPT !.trigger = act_call.event]
          ELSE /\ act_call.res = "raise"
               /\ action = act_call.before

\* a second fill, with another event, was refused after a fill that succeeded
C18_Witness ==
    /\ trigger_changes = 1
    /\ act_call.op = "_fill_trigger"
    /\ act_call.res = "raise"
    /\ act_call.event \notin {"None", action.trigger}

\* C19: extract returns a dict with the key action holding the type and the
\* key params holding the params, and with the key echo, holding resp_id, if
\* and only if resp_id is an identifier (neither None nor empty), and with
\* no other key; it leaves the action as it was, and extract calls made on
\* equal actions return equal dicts.
C19_ExtractKeys ==
    /\ act_call.op = "extract" =>
          LET a == act_call.before
              obj == act_call.res
          IN  /\ action = a
              /\ DOMAIN obj = IF Truthy(a.resp_id)
                              THEN {"action", "params", "echo"}
                              ELSE {"action", "params"}
              /\ obj["action"] = a.type
              /\ obj["params"] = a.params
              /\ "echo" \in DOMAIN obj => obj["echo"] = a.resp_id
    /\ \A x, y \in extracted : x[1] = y[1] => x[2] = y[2]

\* extract has been called before and after the trigger was filled, on an
\* action made without a response id: two dicts without echo
C19_Witness ==
    /\ act_call.op = "extract"
    /\ action.resp_id = "None"
    /\ "echo" \notin DOMAIN act_call.res
    /\ Cardinality(extracted) = 2

(***************************************************************************)
(* Properties of the leaf checker                                          *)
(***************************************************************************)
\* C20: a fill of a slot that holds a callback, from the construction or
\* from an earlier fill, raises BotCheckerError and leaves the checker as it
\* was; a fill of a free slot stores the callback; the other slot is never
\* changed by it, and the value of each slot changes at most once.
C20_SlotFilledOnce ==
    /\ \A slot \in Slots : slot_changes[slot] <= 1
    /\ leaf_call.op = "_fill" =>
          LET b == leaf_call.before
              other == CHOOSE x \in Slots : x # leaf_call.slot
          IN  /\ leaf[other] = b[other]
              /\ IF b[leaf_call.slot] = "None"
                 THEN /\ leaf_call.res = "ok"
                      /\ leaf[leaf_call.slot] = leaf_call.cb
                 ELSE /\ leaf_call.res = "raise"
                      /\ leaf = b

\* a fill of ok_cb with another callback was refused after an earlier fill,
\* fail_cb holding the callback given at construction
C20_Witness ==
    /\ leaf_call.op = "_fill"
    /\ leaf_call.slot = "ok_cb"
    /\ leaf_call.res = "raise"
    /\ slot_changes = [slot \in Slots |-> IF slot = "ok_cb" THEN 1 ELSE 0]
    /\ leaf.fail_cb # "None"
    /\ leaf_call.cb \notin {"None", leaf.ok_cb}

(***************************************************************************)
(* Predicate composition                                                   *)
(***************************************************************************)
IsWrapped(n) == n \in 1..Len(preds) /\ ~IsLeaf(preds[n])

Filled == pred_call.op = "fill" /\ pred_call.res = 1

Evaluated == pred_call.op = "eval"

\* C21: after a successful _fill_ok_cb(cb) or _fill_fail_cb(cb) on a
\* WrappedChecker, every checker of its tree, the composites and the leaves
\* at any depth, holds cb in that slot.
C21_FillReachesWholeTree ==
    (Filled /\ IsWrapped(pred_call.root)) =>
        \A m \in Tree(preds, pred_call.root) : preds[m][pred_call.slot] = pred_call.cb

\* a fill has succeeded on a composite that has a composite child and a
\* second child
C21_Witness ==
    /\ Filled /\ IsWrapped(pred_call.root)
    /\ IsWrapped(preds[pred_call.root].c1)
    /\ preds[pred_call.root].c2 # 0

\* the modes of the composites of the tree of preds[n]
ModesOf(n) == {preds[m].mode : m \in {k \in Tree(preds, n) : ~IsLeaf(preds[k])}}

\* the root evaluated is a composite of AND and OR over three leaves, and it
\* holds the filled pass callback
ThreeLeafTreeEvaluated ==
    /\ Evaluated /\ IsWrapped(pred_call.root)
    /\ Cardinality(Tree(preds, pred_call.root) \cap Leaves(preds)) = 3
    /\ ModesOf(pred_call.root) \subseteq {"AND", "OR"}
    /\ preds[pred_call.root].ok_cb \in FilledCallbacks

\* C22: one evaluation of a composite checker of AND and OR over three
\* leaves, on whose root a pass callback was filled, calls that callback
\* exactly once when the check passes, however many leaves pass.
C22_RootCallbackOnce ==
    (ThreeLeafTreeEvaluated /\ pred_call.out.val) => Len(pred_call.out.ok) = 1

Combined(call) == call.op \in BinaryModes \cup {"NOT"}

\* C23: &, | and ^ with a right operand that is no predicate of the family
\* raise the error of the family and make no composite; with a predicate of
\* the family they return a composite of that mode with the two operands as
\* its children, and ~ returns a NOT composite with one child.
C23_Operators ==
    Combined(pred_call) =>
        IF pred_call.right = NonPredicate
        THEN /\ preds = pred_call.before
             /\ pred_call.res = 0
             /\ pred_call.raised = ErrorOf(family)
        ELSE /\ preds = Append(pred_call.before, Last(preds))
             /\ pred_call.res = Len(preds)
             /\ Last(preds).kind = "wrapped"
             /\ Last(preds).mode = pred_call.op
             /\ Last(preds).c1 = pred_call.left
             /\ Last(preds).c2 = pred_call.right
             /\ (pred_call.op = "NOT") = (Last(preds).c2 = 0)

\* a matcher was combined with an object that is no matcher
C23_Witness ==
    /\ pred_call.op \in BinaryModes
    /\ pred_call.right = NonPredicate
    /\ family = "matcher"
    /\ pred_call.res = 0

\* the result of the m-th child (1 or 2) of the composite evaluated
ChildResult(m) ==
    LET node == preds[pred_call.root]
    IN  EvalRec(preds, IF m = 1 THEN node.c1 ELSE node.c2, pred_call.leafres).val

\* C24: a composite predicate returns, for all results of its children: AND
\* true iff both are true, OR true iff at least one is, XOR true iff exactly
\* one is, NOT the negation of its only child.
C24_TruthTables ==
    (Evaluated /\ IsWrapped(pred_call.root)) =>
        LET mode == preds[pred_call.root].mode
            val == pred_call.out.val
        IN  /\ mode = "AND" => (val <=> (ChildResult(1) /\ ChildResult(2)))
            /\ mode = "OR" => (val <=> (ChildResult(1) \/ ChildResult(2)))
            /\ mode = "XOR" => (val <=> (ChildResult(1) # ChildResult(2)))
            /\ mode = "NOT" => (val <=> ~ChildResult(1))

\* an XOR composite of two true children was evaluated
C24_Witness ==
    /\ Evaluated /\ IsWrapped(pred_call.root)
    /\ preds[pred_call.root].mode = "XOR"
    /\ ChildResult(1) /\ ChildResult(2)
    /\ ~pred_call.out.val

\* the leaves of the tree of preds[n], from left to right, a leaf as often as
\* it occurs
RECURSIVE Fringe(_)
Fringe(n) ==
    IF IsLeaf(preds[n]) THEN <<n>>
    ELSE IF preds[n].mode = "NOT" THEN Fringe(preds[n].c1)
    ELSE Fringe(preds[n].c1) \o Fringe(preds[n].c2)

\* C29: one evaluation of a binary composite evaluates the left child and
\* then the right child, each once, for every mode and whatever the left
\* result is; a NOT composite evaluates its only child.
C29_LeftThenRightEachOnce ==
    Evaluated => pred_call.out.order = Fringe(pred_call.root)

\* an AND whose left child failed and an OR whose left child passed: the
\* outcome was decided and the right child was evaluated
C29_Witness ==
    /\ Evaluated /\ IsWrapped(pred_call.root)
    /\ \/ preds[pred_call.root].mode = "AND" /\ ~ChildResult(1)
       \/ preds[pred_call.root].mode = "OR" /\ ChildResult(1)
    /\ Len(pred_call.out.order) = Len(Fringe(preds[pred_call.root].c1))
                                  + Len(Fringe(preds[pred_call.root].c2))
    /\ IsWrapped(preds[pred_call.root].c2)

(***************************************************************************)
(* BotPlugin: shared objects                                               *)
(***************************************************************************)
\* the set of the pairs of a list of registrations
Registered(regs) == {regs[i] : i \in 1..Len(regs)}

\* C25: _self_build raises PluginInitError exactly when some (namespace, id)
\* registered through on_share_affected was not registered through on_share;
\* the outcome depends on the two sets of registered pairs alone, not on the
\* order of the registrations.
C25_BuildRaisesIffUnsharedCallback ==
    built.res # "none" =>
        /\ built.res \in {"ok", "PluginInitError"}
        /\ (built.res = "PluginInitError") <=>
             (Registered(built.share_cbs) \ Registered(built.shares) # {})

\* the build raised although one of two callbacks is for a pair registered
\* through on_share
C25_Witness ==
    /\ built.res = "PluginInitError"
    /\ Len(built.share_cbs) = 2
    /\ Registered(built.share_cbs) \cap Registered(built.shares) # {}

\* C34: a _fill_ok_cb or _fill_fail_cb call on a composite checker that
\* fails leaves the callback slots of every checker as they were before the
\* call.
C34_FailedFillChangesNothing ==
    (pred_call.op = "fill" /\ pred_call.res = 0) => preds = pred_call.before

C38_AntiEscapeInvertsEscape ==
    cq_restored # <<"none">> => cq_restored = cq_text

(***************************************************************************)
(* Properties of the message packer                                        *)
(***************************************************************************)
\* the params that the arguments of a pack call ask for
ExpectedParams(call) ==
    [message |-> Message(call.msgs),
     auto_escape |-> call.pure,
     user_id |-> IF call.res = "send_private_msg" THEN call.id ELSE 0,
     group_id |-> IF call.res = "send_group_msg" THEN call.id ELSE 0]

\* some package has been returned: each one sets the key 'message'
SomePackage == pk_params.message # NoMessage

\* C36: the package returned by private_pack / group_pack, and the action
\* built from it, depends only on the arguments of that call: its params hold
\* the message, the target id of that call and auto_escape only if isPureText
\* is true, never a key or value left from an earlier call; and a package
\* returned earlier is not changed by a later pack call.
C36_PackageDependsOnCallOnly ==
    /\ [](Returned(pk_call) => pk_params = ExpectedParams(pk_call))
    /\ [](pk_call.op = "build" =>
            /\ pk_call.action = pk_call.of.res
            /\ pk_call.params = ExpectedParams(pk_call.of))
    /\ [][SomePackage => pk_params' = pk_params]_vars

\* C37: pack returns a send_group_msg package addressed to the event's
\* group_id for every group message event, a send_private_msg package
\* addressed to the event's user_id for every private message event, for a
\* poke notice the group form when the event has a group_id and the private
\* form otherwise, and raises BotUnexpectedEvent for every other event.
C37_PackRoutesOrRaisesUnexpected ==
    pk_call.op = "pack" =>
        LET event == pk_call.event
            group == /\ pk_call.res = "send_group_msg"
                     /\ pk_params.group_id = event.group_id
            private == /\ pk_call.res = "send_private_msg"
                       /\ pk_params.user_id = event.user_id
        IN  IF event.post_type = "message" /\ event.message_type = "group"
            THEN group
            ELSE IF event.post_type = "message" /\ event.message_type = "private"
            THEN private
            ELSE IF event.post_type = "notice" /\ event.sub_type = "poke"
            THEN IF event.group_id # 0 THEN group ELSE private
            ELSE pk_call.res = "BotUnexpectedEvent"

(***************************************************************************)
(* Properties of the lifecycle command                                     *)
(***************************************************************************)
\* the last on or off in a sequence of sub-commands, "none" if there is none
RECURSIVE LastSwitch(_)
LastSwitch(cmds) ==
    IF cmds = <<>> THEN "none"
    ELSE IF Last(cmds) \in {"on", "off"} THEN Last(cmds)
    ELSE LastSwitch(Front(cmds))

\* C39: after any sequence of sub-commands WORKING_STATUS is true iff the last
\* of the on/off sub-commands was on; 'on' when already on and 'off' when
\* already off leave the status unchanged ('off' when already off returns no
\* action); a sub-command other than on, off, close raises BotCmdWrongParams
\* and does not change the status.
C39_StatusFollowsLastSwitch ==
    /\ LastSwitch(subcmds) # "none" =>
         (working_status = "True" <=> LastSwitch(subcmds) = "on")
    /\ LastSwitch(subcmds) # "none" => working_status \in {"True", "False"}
    /\ life_call.op = "lifecycle" =>
         /\ (life_call.subCmd = "on" /\ life_call.before = "True") =>
               working_status = "True"
         /\ (life_call.subCmd = "off" /\ life_call.before = "False") =>
               working_status = "False" /\ life_call.res = "none"
         /\ life_call.subCmd \notin {"on", "off", "close"} =>
               /\ life_call.res = "BotCmdWrongParams"
               /\ working_status = life_call.before

\* on, then off, then off again: the second off finds the status off and
\* returns no action
C39_Witness ==
    /\ subcmds = <<"on", "off", "off">>
    /\ working_status = "False"
    /\ life_call.res = "none"

====
